---- MODULE Spec2Model ----
(***************************************************************************)
(* A model of imageio's DICOM plugin (imageio/plugins/dicom.py): the       *)
(* SimpleDicomReader dataset reader and the DicomSeries / process_directory *)
(* series builder.                                                          *)
(*                                                                          *)
(* Conventions.  An optional value (a tag that may be absent from a         *)
(* dataset) is the empty tuple <<>> when absent and <<v>> when present.     *)
(* Positions along z are integers (the unit is arbitrary), so that the      *)
(* comparison newDist > 2.1*distance is 10*newDist > 21*distance.  A mean   *)
(* distance is a fraction <<numerator, denominator>> in lowest terms.       *)
(***************************************************************************)
EXTENDS Integers, Sequences, FiniteSets, TLC

VARIABLES
    \* process_directory
    files,      \* the list list_files produced, in enumeration order
    fidx,       \* index of the next file of the ingest loop
    series,     \* the dict / list of DicomSeries objects
    todo,       \* oids of the series still to be visited by the split loop
    fin,        \* index of the next series of the finish loop
    series_,    \* the list process_directory returns
    progress,   \* messages written to the progress indicator (write calls)
    nextOid,    \* identity of the next DicomSeries object created
    pc,         \* position in process_directory
    \* SimpleDicomReader._read_undefined_length_value
    ul,         \* the file object, the locals of the scan and its outcome
    \* SimpleDicomReader._pixel_data_numpy / _apply_slope_and_offset
    px,         \* the dataset's pixel tags, the array and its element type
    \* SimpleDicomReader
    rd,         \* the reader object, the file it reads and its outcome
    \* DicomFormat.Reader
    plugin      \* the request, _info, _data, _series and the last call's outcome

scanVars == <<files, fidx, series, todo, fin, series_, progress, nextOid, pc>>

vars == <<files, fidx, series, todo, fin, series_, progress, nextOid, pc,
          ul, px, rd, plugin>>

\* the value of a variable the specification at hand does not use
Idle == [status |-> "idle"]

----------------------------------------------------------------------------
(* Bounds of the model.                                                     *)

MaxFiles == 3

----------------------------------------------------------------------------
(* Small helpers.                                                           *)

Abs(x) == IF x < 0 THEN -x ELSE x

Range(s) == {s[i] : i \in 1..Len(s)}

RECURSIVE Gcd(_, _)
Gcd(a, b) == IF b = 0 THEN a ELSE Gcd(b, a % b)

\* n/d as a fraction in lowest terms (d > 0, n >= 0)
Frac(n, d) == LET g == Gcd(n, d) IN <<n \div g, d \div g>>

RECURSIVE Concat(_)
Concat(ss) == IF ss = <<>> THEN <<>> ELSE Head(ss) \o Concat(Tail(ss))

----------------------------------------------------------------------------
(* Files: a file object is its bytes (0..255 each) and its position.        *)

Min(a, b) == IF a < b THEN a ELSE b

Stream(data) == [data |-> data, pos |-> 0]

\* f.read(n): the bytes read (fewer than n at the end of the file) and the
\* file object afterwards
Read(f, n) ==
    LET to == Min(f.pos + n, Len(f.data))
    IN  [bytes |-> IF f.pos >= Len(f.data) THEN <<>>
                   ELSE SubSeq(f.data, f.pos + 1, to),
         f |-> [f EXCEPT !.pos = IF f.pos >= Len(f.data) THEN f.pos ELSE to]]

\* f.seek(p)
Seek(f, p) == [f EXCEPT !.pos = p]

\* bytes.find(needle): the least 0-based index of needle in bytes, or -1
Find(bytes, needle) ==
    LET at == {i \in 0..(Len(bytes) - Len(needle)) :
                  SubSeq(bytes, i + 1, i + Len(needle)) = needle}
    IN  IF at = {} THEN -1 ELSE CHOOSE i \in at : \A j \in at : i <= j

\* struct.pack(prefix + 'H', v)
PackH(little, v) ==
    IF little THEN <<v % 256, v \div 256>> ELSE <<v \div 256, v % 256>>

----------------------------------------------------------------------------
(* SimpleDicomReader._read_undefined_length_value                           *)

\* read_size, the default of the parameter
ReadSize == 128

\* search_rewind
SearchRewind == 3

\* SequenceDelimiterTag = (0xFFFE, 0xE0DD)
SequenceDelimiterTag == <<65534, 57565>>

\* bytes_to_find = struct.pack(prefix + 'HH', 0xFFFE, 0xE0DD)
BytesToFind(little) ==
    PackH(little, SequenceDelimiterTag[1]) \o PackH(little, SequenceDelimiterTag[2])

\* The locals of the scan when it starts on the file object fp.
ReadUndefinedStart(fp, little) ==
    [fp |-> fp, little |-> little, value_chunks |-> <<>>, found |-> FALSE,
     printed |-> FALSE, status |-> "loop"]

\* One round of `while not found`: read a window of read_size bytes (a
\* second read completes a short one), raise EOFError when the window is
\* still short, otherwise look for the delimiter in the window.
ReadUndefinedRound(s) ==
    LET chunk_start == s.fp.pos
        r1 == Read(s.fp, ReadSize)
        r2 == Read(r1.f, ReadSize - Len(r1.bytes))
        short == Len(r1.bytes) < ReadSize
        bytes_read == IF short THEN r1.bytes \o r2.bytes ELSE r1.bytes
        fp1 == IF short THEN r2.f ELSE r1.f
        index == Find(bytes_read, BytesToFind(s.little))
    IN  IF Len(bytes_read) < ReadSize
        THEN [s EXCEPT !.fp = fp1, !.status = "EOFError"]
        ELSE IF index /= -1
        THEN LET length == Read(Seek(fp1, chunk_start + index + 4), 4)
             IN  [s EXCEPT !.found = TRUE,
                           !.value_chunks = Append(@, SubSeq(bytes_read, 1, index)),
                           !.fp = length.f,
                           !.printed = length.bytes /= <<0, 0, 0, 0>>]
        ELSE [s EXCEPT !.fp = Seek(fp1, fp1.pos - SearchRewind),
                       !.value_chunks =
                           Append(@, SubSeq(bytes_read, 1,
                                            Len(bytes_read) - SearchRewind))]

\* return b"".join(value_chunks)
ReadUndefinedReturn(s) ==
    [s EXCEPT !.status = "returned", !.value_chunks = <<Concat(@)>>]

\* the whole call: the value returned (or the exception) and the file object
RECURSIVE ReadUndefinedLoop(_)
ReadUndefinedLoop(s) ==
    IF s.status = "EOFError" THEN s
    ELSE IF s.found THEN ReadUndefinedReturn(s)
    ELSE ReadUndefinedLoop(ReadUndefinedRound(s))

\* what the call leaves: whether it raised EOFError, the value returned and
\* the file object
ReadUndefinedOutcome(s) ==
    [raised |-> s.status = "EOFError",
     value |-> IF s.status = "returned" THEN s.value_chunks[1] ELSE <<>>,
     fp |-> s.fp]

read_undefined_length_value(fp, little) ==
    ReadUndefinedOutcome(ReadUndefinedLoop(ReadUndefinedStart(fp, little)))

----------------------------------------------------------------------------
(* Numbers.  A pixel value, and what the rescale computes from it, can need *)
(* more than 32 bits: such an integer n is the pair <<hi, lo>> with         *)
(* n = hi * 2^16 + lo and 0 <= lo < 2^16.                                   *)

W == 256 * 256

Norm(hi, lo) == <<hi + (lo \div W), lo % W>>

Big(n) == Norm(0, n)

BAdd(a, b) == Norm(a[1] + b[1], a[2] + b[2])

BNeg(a) == Norm(-a[1], -a[2])

\* a * k for a small k
BMul(a, k) == Norm(a[1] * k, a[2] * k)

BLess(a, b) == a[1] < b[1] \/ (a[1] = b[1] /\ a[2] < b[2])

\* floor(a / 2)
BHalf(a) == <<a[1] \div 2, (a[1] % 2) * (W \div 2) + (a[2] \div 2)>>

BDouble(a) == BAdd(a, a)

BMin(S) == CHOOSE a \in S : \A b \in S : ~BLess(b, a)

BMax(S) == CHOOSE a \in S : \A b \in S : ~BLess(a, b)

Pow2(e) == IF e < 16 THEN <<0, 2^e>> ELSE <<2^(e - 16), 0>>

Reverse(s) == [i \in 1..Len(s) |-> s[Len(s) + 1 - i]]

RECURSIVE Product(_)
Product(s) == IF s = <<>> THEN 1 ELSE Head(s) * Product(Tail(s))

----------------------------------------------------------------------------
(* numpy element types and arrays.  An array is its dtype, its shape and    *)
(* its values in C order.  The values of an integer array are integers; the *)
(* values of a float32 array are counted in halves (twice the value), which *)
(* is exact for every value the rescale can produce from an integer array   *)
(* with slopes and intercepts that are multiples of 1/2.                    *)

DType(kind, bits) == [kind |-> kind, bits |-> bits]

\* the magnitude m >= 2^24 rounded to 24 significant bits, ties to even;
\* sticky tells whether a 1 was already dropped below m's last bit
RECURSIVE RoundBits(_, _)
RoundBits(m, sticky) ==
    IF m[1] < 512
    THEN LET q == BHalf(m)
             up == m[2] % 2 = 1 /\ (sticky \/ q[2] % 2 = 1)
         IN  BDouble(IF up THEN BAdd(q, Big(1)) ELSE q)
    ELSE BDouble(RoundBits(BHalf(m), sticky \/ m[2] % 2 = 1))

\* the nearest float32 (IEEE round to nearest even)
RoundF32(a) ==
    LET neg == BLess(a, Big(0))
        m == IF neg THEN BNeg(a) ELSE a
        r == IF m[1] < 256 THEN m ELSE RoundBits(m, FALSE)
    IN  IF neg THEN BNeg(r) ELSE r

\* the integer a converted to an integer type: modulo 2^bits
CastInt(dtype, a) ==
    LET u == IF dtype.bits = 8 THEN <<0, a[2] % 256>>
             ELSE IF dtype.bits = 16 THEN <<0, a[2]>>
             ELSE <<a[1] % W, a[2]>>
    IN  IF dtype.kind = "i" /\ ~BLess(u, Pow2(dtype.bits - 1))
        THEN BAdd(u, BNeg(Pow2(dtype.bits)))
        ELSE u

\* the bytes bs of one element in the byte order given, as a value of dtype
Decode(bs, little, dtype) ==
    LET le == IF little THEN bs ELSE Reverse(bs)
        u == IF dtype.bits = 8 THEN <<0, le[1]>>
             ELSE IF dtype.bits = 16 THEN <<0, le[1] + 256 * le[2]>>
             ELSE <<le[3] + 256 * le[4], le[1] + 256 * le[2]>>
    IN  CastInt(dtype, u)

\* arr.astype(dtype) of an integer array
AsType(arr, dtype) ==
    IF dtype = arr.dtype THEN arr
    ELSE [arr EXCEPT !.dtype = dtype,
                     !.values = [i \in 1..Len(arr.values) |->
                         IF dtype.kind = "f" THEN RoundF32(BDouble(arr.values[i]))
                         ELSE CastInt(dtype, arr.values[i])]]

\* arr *= slope, slope2 being twice the slope (even when arr is an integer
\* array); the result is stored in arr's dtype
InPlaceMul(arr, slope2) ==
    [arr EXCEPT !.values = [i \in 1..Len(arr.values) |->
        IF arr.dtype.kind = "f"
        THEN RoundF32(BMul(BHalf(arr.values[i]), slope2))
        ELSE CastInt(arr.dtype, BMul(arr.values[i], slope2 \div 2))]]

\* arr += offset, offset2 being twice the offset
InPlaceAdd(arr, offset2) ==
    [arr EXCEPT !.values = [i \in 1..Len(arr.values) |->
        IF arr.dtype.kind = "f"
        THEN RoundF32(BAdd(arr.values[i], Big(offset2)))
        ELSE CastInt(arr.dtype, BAdd(arr.values[i], Big(offset2 \div 2)))]]

----------------------------------------------------------------------------
(* SimpleDicomReader._pixel_data_numpy                                      *)

\* info holds BitsAllocated, PixelRepresentation, PixelData and shape; the
\* result is the array, or the exception raised
pixel_data_numpy(info, is_little_endian, sys_is_little_endian) ==
    LET need_byteswap == is_little_endian /= sys_is_little_endian
        numpy_format == DType(<<"u", "i">>[info.PixelRepresentation + 1],
                              info.BitsAllocated)
        itemsize == info.BitsAllocated \div 8
        n == Len(info.PixelData) \div itemsize
        element(i) == SubSeq(info.PixelData, (i - 1) * itemsize + 1, i * itemsize)
        \* np.fromstring reads the elements in the byte order of the host
        arr == [i \in 1..n |->
                   Decode(IF need_byteswap THEN Reverse(element(i)) ELSE element(i),
                          sys_is_little_endian, numpy_format)]
    IN  IF Len(info.PixelData) % itemsize /= 0 \/ n /= Product(info.shape)
        THEN [raised |-> "ValueError", data |-> <<>>]
        ELSE [raised |-> "",
              data |-> [dtype |-> numpy_format, shape |-> info.shape, values |-> arr]]

----------------------------------------------------------------------------
(* SimpleDicomReader._apply_slope_and_offset                                *)
(* RescaleSlope and RescaleIntercept are floats (VR DS); the model holds    *)
(* twice their value, so that 1/2 is a value and `int(x) != x` is `x2 odd`. *)
(* Scalar arithmetic is numpy's value-based promotion: data.min() * slope   *)
(* with slope a Python int is computed in 64 bits, never in data's dtype.   *)

\* the dtype for the range [minReq, maxReq] with the unsigned types that the
\* comment of the second branch announces
RequiredDTypeUnsigned(minReq, maxReq) ==
    IF BLess(minReq, Big(0))
    THEN LET maxAbs == BMax({BNeg(minReq), maxReq})
         IN  IF BLess(maxAbs, Pow2(7)) THEN DType("i", 8)
             ELSE IF BLess(maxAbs, Pow2(15)) THEN DType("i", 16)
             ELSE IF BLess(maxAbs, Pow2(31)) THEN DType("i", 32)
             ELSE DType("f", 32)
    ELSE IF BLess(maxReq, Pow2(8)) THEN DType("u", 8)
         ELSE IF BLess(maxReq, Pow2(16)) THEN DType("u", 16)
         ELSE IF BLess(maxReq, Pow2(32)) THEN DType("u", 32)
         ELSE DType("f", 32)

\* lines 671-692: the dtype for the range [minReq, maxReq]
RequiredDType(minReq, maxReq) ==
    IF BLess(minReq, Big(0))
    THEN LET maxAbs == BMax({BNeg(minReq), maxReq})
         IN  IF BLess(maxAbs, Pow2(7)) THEN DType("i", 8)
             ELSE IF BLess(maxAbs, Pow2(15)) THEN DType("i", 16)
             ELSE IF BLess(maxAbs, Pow2(31)) THEN DType("i", 32)
             ELSE DType("f", 32)
    ELSE IF BLess(maxReq, Pow2(8)) THEN DType("i", 8)
         ELSE IF BLess(maxReq, Pow2(16)) THEN DType("i", 16)
         ELSE IF BLess(maxReq, Pow2(32)) THEN DType("i", 32)
         ELSE DType("f", 32)

\* info holds RescaleSlope and RescaleIntercept (optional); data is an
\* integer array with at least one element
apply_slope_and_offset(info, data) ==
    LET needApplySlopeOffset ==
            info.RescaleSlope /= <<>> \/ info.RescaleIntercept /= <<>>
        slope2 == IF info.RescaleSlope /= <<>> THEN info.RescaleSlope[1] ELSE 2
        offset2 == IF info.RescaleIntercept /= <<>>
                   THEN info.RescaleIntercept[1] ELSE 0
        needFloats == slope2 % 2 /= 0 \/ offset2 % 2 /= 0
        slope == slope2 \div 2
        offset == Big(offset2 \div 2)
        min0 == BMin(Range(data.values))
        max0 == BMax(Range(data.values))
        minReq == BMin({min0, BAdd(BMul(min0, slope), offset),
                        BAdd(BMul(max0, slope), offset)})
        maxReq == BMax({max0, BAdd(BMul(minReq, slope), offset),
                        BAdd(BMul(max0, slope), offset)})
        data1 == IF needFloats THEN AsType(data, DType("f", 32))
                 ELSE AsType(data, RequiredDType(minReq, maxReq))
    IN  IF needApplySlopeOffset
        THEN InPlaceAdd(InPlaceMul(data1, slope2), offset2)
        ELSE data

----------------------------------------------------------------------------
(* SimpleDicomReader._get_shape_and_sampling                                *)

\* the shape tuple, or <<>> when the code raises NotImplementedError
GetShape(nframes, spp, bits, rows, cols) ==
    IF nframes /= <<>> /\ nframes[1] > 1
    THEN IF spp > 1 THEN <<spp, nframes[1], rows, cols>>
                    ELSE <<nframes[1], rows, cols>>
    ELSE IF spp > 1
         THEN IF bits = 8 THEN <<spp, rows, cols>> ELSE <<>>
         ELSE <<rows, cols>>

\* sampling = (1.0,)*(len(shape)-len(sampling)) + sampling[-len(shape):]
\* ps holds the two PixelSpacing values and sliceSpacing the optional
\* SliceSpacing, each a fraction, as is every component of the result
GetSampling(shape, ps, sliceSpacing) ==
    LET s0 == <<ps[1], ps[2]>>
        s1 == IF sliceSpacing /= <<>>
              THEN <<Frac(Abs(sliceSpacing[1][1]), sliceSpacing[1][2])>> \o s0
              ELSE s0
        pad == IF Len(shape) > Len(s1) THEN Len(shape) - Len(s1) ELSE 0
        keep == IF Len(s1) > Len(shape) THEN Len(shape) ELSE Len(s1)
    IN  [i \in 1..pad |-> Frac(1, 1)]
            \o SubSeq(s1, Len(s1) - keep + 1, Len(s1))

\* The dataset a successful SimpleDicomReader(filename) holds: the tags the
\* series builder reads plus the derived shape and sampling.
Dataset(f) ==
    LET shape == GetShape(f.nframes, 1, 16, f.rows, f.cols)
    IN  [filename |-> f.name, suid |-> f.suid, inst |-> f.inst, z |-> f.z,
         rows |-> f.rows, cols |-> f.cols, ps |-> <<f.ps, f.ps>>,
         shape |-> shape,
         sampling |-> GetSampling(shape, <<Frac(f.ps, 1), Frac(f.ps, 1)>>, <<>>)]

----------------------------------------------------------------------------
(* Values of data elements.  Text is the tuple of its character codes; the  *)
(* text of the model's files is ASCII.  A value of the info dict is typed:  *)
(* an int, a float (the model holds twice its value), a str, a bytes or a   *)
(* tuple of such values.                                                    *)

IntVal(n) == [t |-> "int", v |-> n]

FloatVal(twice) == [t |-> "float", v |-> twice]

StrVal(text) == [t |-> "str", v |-> text]

BytesVal(bs) == [t |-> "bytes", v |-> bs]

TupleVal(vs) == [t |-> "tuple", v |-> vs]

IsAscii(bs) == \A i \in 1..Len(bs) : bs[i] < 128

\* the characters str.strip() and float() take for whitespace
Whitespace == {9, 10, 11, 12, 13, 28, 29, 30, 31, 32}

\* s.strip(chars)
RECURSIVE LStrip(_, _)
LStrip(s, chars) ==
    IF s /= <<>> /\ Head(s) \in chars THEN LStrip(Tail(s), chars) ELSE s

RECURSIVE RStrip(_, _)
RStrip(s, chars) ==
    IF s /= <<>> /\ s[Len(s)] \in chars
    THEN RStrip(SubSeq(s, 1, Len(s) - 1), chars) ELSE s

Strip(s, chars) == RStrip(LStrip(s, chars), chars)

\* the index of the first sep in s
First(s, sep) ==
    CHOOSE i \in 1..Len(s) : s[i] = sep /\ \A j \in 1..(i - 1) : s[j] /= sep

\* s.split(sep) for a separator of one character
RECURSIVE Split(_, _)
RECURSIVE SplitAt(_, _, _)
SplitAt(s, sep, k) ==
    <<SubSeq(s, 1, k - 1)>> \o Split(SubSeq(s, k + 1, Len(s)), sep)

Split(s, sep) ==
    IF sep \notin Range(s) THEN <<s>> ELSE SplitAt(s, sep, First(s, sep))

IsDigit(c) == c >= 48 /\ c <= 57

RECURSIVE DigitsValue(_)
DigitsValue(ds) ==
    IF ds = <<>> THEN 0
    ELSE 10 * DigitsValue(SubSeq(ds, 1, Len(ds) - 1)) + (ds[Len(ds)] - 48)

\* the numeral whose parts around the point are `parts`: ok is FALSE where
\* Python raises ValueError, and then the value is the text s itself
ParseParts(parts, negative, s, type) ==
    LET frac == IF Len(parts) = 2 THEN parts[2] ELSE <<>>
        okInt == parts[1] /= <<>> /\ \A i \in 1..Len(parts[1]) : IsDigit(parts[1][i])
        okFrac == /\ type = "float"
                  /\ Len(parts) = 2
                  /\ parts[2] /= <<>>
                  /\ parts[2][1] \in {48, 53}
                  /\ \A i \in 2..Len(parts[2]) : parts[2][i] = 48
        mag2 == 2 * DigitsValue(parts[1])
                    + (IF frac /= <<>> /\ frac[1] = 53 THEN 1 ELSE 0)
    IN  IF ~(okInt /\ (Len(parts) = 1 \/ okFrac))
        THEN [ok |-> FALSE, value |-> StrVal(s)]
        ELSE IF type = "float"
        THEN [ok |-> TRUE, value |-> FloatVal(IF negative THEN -mag2 ELSE mag2)]
        ELSE [ok |-> TRUE, value |-> IntVal(IF negative THEN -(mag2 \div 2)
                                                          ELSE mag2 \div 2)]

\* the numeral t, whitespace stripped
ParseSigned(t, s, type) ==
    IF t /= <<>> /\ Head(t) \in {43, 45}
    THEN ParseParts(Split(Tail(t), 46), Head(t) = 45, s, type)
    ELSE ParseParts(Split(t, 46), FALSE, s, type)

\* int(s) and float(s) of a decimal numeral: optional whitespace around an
\* optional sign, digits and, for a float, an optional fraction .0 or .5
\* (with more zeros).  The texts of the model are such numerals or hold a
\* letter.
ParseNumber(s, type) == ParseSigned(Strip(s, Whitespace), s, type)

\* tuple([type(v) for v in ...]), or s when a type(v) raises ValueError
TupleOfNumbers(parsed, s) ==
    IF \A i \in 1..Len(parsed) : parsed[i].ok
    THEN TupleVal([i \in 1..Len(parsed) |-> parsed[i].value])
    ELSE StrVal(s)

ParseAll(parts, type) == [i \in 1..Len(parts) |-> ParseNumber(parts[i], type)]

\* _splitValues on the decoded and stripped text s
SplitText(s, type) ==
    IF 92 \in Range(s)
    THEN TupleOfNumbers(ParseAll(SelectSeq(Split(s, 92), LAMBDA v : v /= <<>>),
                                 type), s)
    ELSE ParseNumber(s, type).value

\* _splitValues(x, type, '\\')
SplitValues(x, type) ==
    IF ~IsAscii(x) THEN [raised |-> "UnicodeDecodeError", value |-> <<>>]
    ELSE [raised |-> "", value |-> SplitText(Strip(x, {0}), type)]

\* struct.unpack(prefix + 'H', value)[0]
UnpackH(little, bs) ==
    IF little THEN bs[1] + 256 * bs[2] ELSE 256 * bs[1] + bs[2]

\* struct.unpack(prefix + 'I', value)[0], a number of 32 bits
UnpackI(little, bs) ==
    IF little THEN <<bs[3] + 256 * bs[4], bs[1] + 256 * bs[2]>>
    ELSE <<256 * bs[1] + bs[2], 256 * bs[3] + bs[4]>>

\* self._converters.get(vr, lambda x: x)(value)
Convert(vr, x, little) ==
    IF vr = "US"
    THEN IF Len(x) /= 2 THEN [raised |-> "struct.error", value |-> <<>>]
         ELSE [raised |-> "", value |-> IntVal(UnpackH(little, x))]
    ELSE IF vr = "UL"
    THEN IF Len(x) /= 4 THEN [raised |-> "struct.error", value |-> <<>>]
         ELSE [raised |-> "", value |-> [t |-> "long", v |-> UnpackI(little, x)]]
    ELSE IF vr \in {"DS", "CS", "IS"}
    THEN SplitValues(x, IF vr = "IS" THEN "int" ELSE "float")
    ELSE IF vr \in {"AS", "DA", "TM", "UI", "LO", "PN"}
    THEN IF ~IsAscii(x) THEN [raised |-> "UnicodeDecodeError", value |-> <<>>]
         ELSE [raised |-> "",
               value |-> StrVal(RStrip(Strip(x, {0}),
                                       IF vr \in {"LO", "PN"} THEN Whitespace
                                       ELSE {}))]
    ELSE [raised |-> "", value |-> BytesVal(x)]

----------------------------------------------------------------------------
(* MINIDICT, GROUPS                                                         *)

\* the items of the dict display in the order written: group, element,
\* name, VR
MINIDICT_items ==
    <<<<32736, 16, "PixelData", "OB">>, <<8, 32, "StudyDate", "DA">>,
      <<8, 33, "SeriesDate", "DA">>, <<8, 34, "AcquisitionDate", "DA">>,
      <<8, 35, "ContentDate", "DA">>, <<8, 48, "StudyTime", "TM">>,
      <<8, 49, "SeriesTime", "TM">>, <<8, 50, "AcquisitionTime", "TM">>,
      <<8, 51, "ContentTime", "TM">>, <<8, 96, "Modality", "CS">>,
      <<8, 112, "Manufacturer", "LO">>, <<8, 128, "InstitutionName", "LO">>,
      <<8, 4144, "StudyDescription", "LO">>, <<8, 4158, "SeriesDescription", "LO">>,
      <<32, 22, "SOPClassUID", "UI">>, <<32, 24, "SOPInstanceUID", "UI">>,
      <<32, 13, "StudyInstanceUID", "UI">>, <<32, 14, "SeriesInstanceUID", "UI">>,
      <<8, 279, "ContextUID", "UI">>, <<32, 17, "SeriesNumber", "IS">>,
      <<32, 18, "AcquisitionNumber", "IS">>, <<32, 19, "InstanceNumber", "IS">>,
      <<32, 20, "IsotopeNumber", "IS">>, <<32, 21, "PhaseNumber", "IS">>,
      <<32, 22, "IntervalNumber", "IS">>, <<32, 23, "TimeSlotNumber", "IS">>,
      <<32, 24, "AngleNumber", "IS">>, <<32, 25, "ItemNumber", "IS">>,
      <<32, 32, "PatientOrientation", "CS">>, <<32, 48, "ImagePosition", "CS">>,
      <<32, 50, "ImagePositionPatient", "CS">>, <<32, 53, "ImageOrientation", "CS">>,
      <<32, 55, "ImageOrientationPatient", "CS">>, <<16, 16, "PatientName", "PN">>,
      <<16, 32, "PatientID", "LO">>, <<16, 48, "PatientBirthDate", "DA">>,
      <<16, 64, "PatientSex", "CS">>, <<16, 4112, "PatientAge", "AS">>,
      <<16, 4128, "PatientSize", "DS">>, <<16, 4144, "PatientWeight", "DS">>,
      <<40, 2, "SamplesPerPixel", "US">>, <<40, 8, "NumberOfFrames", "IS">>,
      <<40, 256, "BitsAllocated", "US">>, <<40, 257, "BitsStored", "US">>,
      <<40, 258, "HighBit", "US">>, <<40, 259, "PixelRepresentation", "US">>,
      <<40, 16, "Rows", "US">>, <<40, 17, "Columns", "US">>,
      <<40, 82, "RescaleIntercept", "DS">>, <<40, 83, "RescaleSlope", "DS">>,
      <<40, 48, "PixelSpacing", "DS">>, <<24, 136, "SliceSpacing", "DS">>>>

\* the items of a key
ItemsOf(group, element) ==
    {i \in 1..Len(MINIDICT_items) :
        MINIDICT_items[i][1] = group /\ MINIDICT_items[i][2] = element}

\* the last of the items at
LastItem(at) ==
    IF at = {} THEN <<>>
    ELSE SubSeq(MINIDICT_items[CHOOSE k \in at : \A j \in at : j <= k], 3, 4)

\* MINIDICT.get(key, (None, None)): of two items with one key the later one
\* is the dict's; <<>> stands for (None, None)
MINIDICT_get(group, element) == LastItem(ItemsOf(group, element))

GROUPS == {MINIDICT_items[i][1] : i \in 1..Len(MINIDICT_items)}

----------------------------------------------------------------------------
(* SimpleDicomReader._readDataElement, a step at a time.  The result of a   *)
(* call is the exception raised ("" for none), the file object afterwards,  *)
(* the group, element and value returned, and loc: <<>> or the <<here, vl>> *)
(* the call stored in _pixel_data_loc.                                      *)

\* vl == 0xFFFFFFFF
UndefinedLength == <<W - 1, W - 1>>

\* a length of 32 bits as a number of bytes; 2^30 stands for every length
\* from 2^30 on (no file of the model is that long)
LenOf(vl) == IF vl[1] >= 2^14 THEN 2^30 ELSE vl[1] * W + vl[2]

\* b'Deferred loading of pixel data'
DeferredLoading ==
    <<68, 101, 102, 101, 114, 114, 101, 100, 32, 108, 111, 97, 100, 105, 110,
      103, 32, 111, 102, 32, 112, 105, 120, 101, 108, 32, 100, 97, 116, 97>>

\* the VRs with a reserved field and a length of 4 bytes: OB, OW, SQ, UN
LongVRs == {<<79, 66>>, <<79, 87>>, <<83, 81>>, <<85, 78>>}

ElementRaised(exc, f) ==
    [raised |-> exc, f |-> f, group |-> 0, element |-> 0, value |-> <<>>,
     loc |-> <<>>]

ElementReturned(f, group, element, value, loc) ==
    [raised |-> "", f |-> f, group |-> group, element |-> element,
     value |-> value, loc |-> loc]

\* line 427, u the outcome of _read_undefined_length_value
ElementUndefined(group, element, u) ==
    IF u.raised THEN ElementRaised("EOFError", u.fp)
    ELSE ElementReturned(u.fp, group, element, u.value, <<>>)

\* lines 420-430: the value, f standing after the length
ElementValue(group, element, vl, f, little) ==
    IF group = 32736 /\ element = 16
    THEN ElementReturned(Seek(f, f.pos + LenOf(vl)), group, element,
                         DeferredLoading, <<f.pos, vl>>)
    ELSE IF vl = UndefinedLength
    THEN ElementUndefined(group, element, read_undefined_length_value(f, little))
    ELSE ElementReturned(Read(f, LenOf(vl)).f, group, element,
                         Read(f, LenOf(vl)).bytes, <<>>)

\* lines 411, 416: vl = self._unpack('I', f.read(4)), l the outcome of the read
ElementLength4(group, element, l, little) ==
    IF Len(l.bytes) < 4 THEN ElementRaised("struct.error", l.f)
    ELSE ElementValue(group, element, UnpackI(little, l.bytes), l.f, little)

\* line 418: vl = self._unpack('H', f.read(2))
ElementLength2(group, element, l, little) ==
    IF Len(l.bytes) < 2 THEN ElementRaised("struct.error", l.f)
    ELSE ElementValue(group, element, <<0, UnpackH(little, l.bytes)>>, l.f, little)

\* lines 413-418, vr the outcome of f.read(2)
ElementVR(group, element, vr, little) ==
    IF vr.bytes \in LongVRs
    THEN ElementLength4(group, element, Read(Read(vr.f, 2).f, 4), little)
    ELSE ElementLength2(group, element, Read(vr.f, 2), little)

\* line 408, e the outcome of f.read(2)
ElementNumber(group, e, is_implicit_VR, little) ==
    IF Len(e.bytes) < 2 THEN ElementRaised("struct.error", e.f)
    ELSE IF is_implicit_VR
    THEN ElementLength4(group, UnpackH(little, e.bytes), Read(e.f, 4), little)
    ELSE ElementVR(group, UnpackH(little, e.bytes), Read(e.f, 2), little)

\* line 407, g the outcome of f.read(2)
ElementGroup(g, is_implicit_VR, little) ==
    IF Len(g.bytes) < 2 THEN ElementRaised("struct.error", g.f)
    ELSE ElementNumber(UnpackH(little, g.bytes), Read(g.f, 2), is_implicit_VR,
                       little)

\* one call on the file object f
readDataElement(f, is_implicit_VR, little) ==
    ElementGroup(Read(f, 2), is_implicit_VR, little)

----------------------------------------------------------------------------
(* zlib.decompress(zipped, -zlib.MAX_WBITS): raw DEFLATE.  The streams of   *)
(* the model are sequences of stored blocks (BTYPE = 00): one byte holding  *)
(* BFINAL and BTYPE, LEN and its complement NLEN in two bytes each, low     *)
(* byte first, and LEN literal bytes.                                       *)

\* the literal bytes of a block followed by what the later blocks inflate to
InflateMore(literal, rest) ==
    IF rest.raised /= "" THEN [raised |-> rest.raised, data |-> <<>>]
    ELSE [raised |-> "", data |-> literal \o rest.data]

RECURSIVE Inflate(_)
\* the stored block of len literal bytes at the head of zipped
InflateStored(zipped, len, nlen) ==
    IF len + nlen /= W - 1 \/ Len(zipped) < 5 + len
    THEN [raised |-> "zlib.error", data |-> <<>>]
    ELSE IF zipped[1] % 2 = 1
    THEN [raised |-> "", data |-> SubSeq(zipped, 6, 5 + len)]
    ELSE InflateMore(SubSeq(zipped, 6, 5 + len),
                     Inflate(SubSeq(zipped, 6 + len, Len(zipped))))

Inflate(zipped) ==
    IF zipped = <<>> THEN [raised |-> "zlib.error", data |-> <<>>]
    ELSE IF (zipped[1] \div 2) % 4 /= 0
    THEN [raised |-> "compressed block", data |-> <<>>]
    ELSE IF Len(zipped) < 5 THEN [raised |-> "zlib.error", data |-> <<>>]
    ELSE InflateStored(zipped, zipped[2] + 256 * zipped[3],
                       zipped[4] + 256 * zipped[5])

----------------------------------------------------------------------------
(* SimpleDicomReader: the object                                            *)

\* '1.2.840.10008.1.2', implicit VR little endian
ImplicitVRLittleEndian ==
    <<49, 46, 50, 46, 56, 52, 48, 46, 49, 48, 48, 48, 56, 46, 49, 46, 50>>

\* '1.2.840.10008.1.2.1'
ExplicitVRLittleEndian == ImplicitVRLittleEndian \o <<46, 49>>

\* '1.2.840.10008.1.2.2'
ExplicitVRBigEndian == ImplicitVRLittleEndian \o <<46, 50>>

\* '1.2.840.10008.1.2.1.99'
DeflatedExplicitVRLittleEndian == ExplicitVRLittleEndian \o <<46, 57, 57>>

\* '1.2.840.10008.1.2.4.70'
JPEGLossless == ImplicitVRLittleEndian \o <<46, 52, 46, 55, 48>>

\* b'DICM'
DICM == <<68, 73, 67, 77>>

\* an open file object on data
FileObject(data) == [data |-> data, pos |-> 0]

Has(info, name) == name \in DOMAIN info

\* info[name] = value
Put(info, name, value) == (name :> value) @@ info

\* __init__ up to the call of _read (lines 324-356).  file is a file name
\* (isPath) or a file object; disk holds the bytes of the file read either
\* way; isfile is os.path.isfile(self._filename).  handle is the file that
\* line 328 opened: "none" for a reader given a file object, "open",
\* "closed" once close() has been called on it, and "dropped" when the
\* reader has let go of it without closing it.
SimpleDicomReaderInit(isPath, disk, sys_is_little_endian) ==
    [isfile |-> isPath, disk |-> disk,
     file |-> <<FileObject(disk)>>,
     handle |-> IF isPath THEN "open" ELSE "none",
     pixel_data_loc |-> <<>>,
     is_implicit_VR |-> FALSE, is_little_endian |-> TRUE,
     info |-> <<>>,
     sys_is_little_endian |-> sys_is_little_endian,
     array |-> <<>>, calls |-> 0, status |-> "read"]

\* lines 391-393, magic the outcome of f.read(4)
PrefixRead(r, magic) ==
    [r EXCEPT !.file = <<magic.f>>,
              !.status = IF magic.bytes /= DICM THEN "NotADicomFile" ELSE "header"]

\* _read, lines 389-393: the prefix after the preamble
ReadPrefix(r) == PrefixRead(r, Read(Seek(r.file[1], 128), 4))

HeaderEnds(raised, f, uid, loc) ==
    [raised |-> raised, f |-> f, uid |-> uid, loc |-> loc]

RECURSIVE HeaderLoop(_, _, _)
\* a round that takes the end of the file for the end of the header
HeaderRoundToEnd(el, fp_save, TransferSyntaxUID, loc) ==
    IF el.raised /= ""
    THEN HeaderEnds("", Seek(el.f, fp_save), TransferSyntaxUID, loc)
    ELSE IF el.group /= 2
    THEN HeaderEnds("", Seek(el.f, fp_save), TransferSyntaxUID, loc)
    ELSE IF el.element /= 16 THEN HeaderLoop(el.f, TransferSyntaxUID, loc)
    ELSE IF ~IsAscii(el.value)
    THEN HeaderEnds("UnicodeDecodeError", el.f, TransferSyntaxUID, loc)
    ELSE HeaderLoop(el.f, <<Strip(el.value, {0})>>, loc)

\* one round of the loop, el the outcome of _readDataElement and loc what
\* _pixel_data_loc is after it
HeaderRound(el, fp_save, TransferSyntaxUID, loc) ==
    IF el.raised /= ""
    THEN HeaderEnds("RuntimeError", el.f, TransferSyntaxUID, loc)
    ELSE IF el.group /= 2
    THEN HeaderEnds("", Seek(el.f, fp_save), TransferSyntaxUID, loc)
    ELSE IF el.element /= 16 THEN HeaderLoop(el.f, TransferSyntaxUID, loc)
    ELSE IF ~IsAscii(el.value)
    THEN HeaderEnds("UnicodeDecodeError", el.f, TransferSyntaxUID, loc)
    ELSE HeaderLoop(el.f, <<Strip(el.value, {0})>>, loc)

\* _pixel_data_loc after a call of _readDataElement
LocAfter(el, loc) == IF el.loc /= <<>> THEN el.loc ELSE loc

HeaderElement(el, fp_save, TransferSyntaxUID, loc) ==
    HeaderRound(el, fp_save, TransferSyntaxUID, LocAfter(el, loc))

\* the loop of _read_header, lines 476-489: the file object after it, the
\* TransferSyntaxUID (<<>> for None) and the _pixel_data_loc set on the way
HeaderLoop(f, TransferSyntaxUID, loc) ==
    HeaderElement(readDataElement(f, FALSE, TRUE), f.pos, TransferSyntaxUID, loc)

\* the file object after zlib.decompress of the bytes zipped read
Inflated(zipped, unzipped) ==
    [raised |-> unzipped.raised,
     f |-> IF unzipped.raised = "" THEN FileObject(unzipped.data) ELSE zipped.f]

InflateRead(zipped) == Inflated(zipped, Inflate(zipped.bytes))

\* _inflate: the rest of the file, decompressed, becomes the file object
inflate(f) == InflateRead(Read(f, Len(f.data)))

\* lines 494-514 for a transfer syntax read as it is
Syntax(r, implicit, little) ==
    [r EXCEPT !.is_implicit_VR = implicit, !.is_little_endian = little,
              !.status = "elements"]

\* lines 502-504, z the outcome of _inflate
SyntaxDeflated(r, z) ==
    IF z.raised /= "" THEN [r EXCEPT !.file = <<z.f>>, !.status = z.raised]
    ELSE [Syntax(r, FALSE, TRUE) EXCEPT
              !.file = <<z.f>>,
              !.handle = IF @ = "open" THEN "dropped" ELSE @]

\* lines 494-514: the transfer syntax uid, <<>> for None
HeaderSyntax(r, uid) ==
    IF uid = <<>> THEN Syntax(r, FALSE, TRUE)
    ELSE IF uid[1] = ExplicitVRLittleEndian THEN Syntax(r, FALSE, TRUE)
    ELSE IF uid[1] = ExplicitVRBigEndian THEN Syntax(r, FALSE, FALSE)
    ELSE IF uid[1] = ImplicitVRLittleEndian THEN Syntax(r, TRUE, TRUE)
    ELSE IF uid[1] = DeflatedExplicitVRLittleEndian
    THEN SyntaxDeflated(r, inflate(r.file[1]))
    ELSE IF uid[1] = JPEGLossless THEN Syntax(r, FALSE, TRUE)
    ELSE [r EXCEPT !.status = "RuntimeError"]

\* line 492: self._info['TransferSyntaxUID'] = TransferSyntaxUID
HeaderInfo(r, uid) ==
    [r EXCEPT !.info = Put(@, "TransferSyntaxUID",
                           IF uid = <<>> THEN [t |-> "None", v |-> <<>>]
                           ELSE StrVal(uid[1]))]

\* _read_header after its loop, h the outcome of the loop
HeaderRead(r, h) ==
    IF h.raised /= ""
    THEN [r EXCEPT !.file = <<h.f>>, !.pixel_data_loc = h.loc,
                   !.status = h.raised]
    ELSE HeaderSyntax(HeaderInfo([r EXCEPT !.file = <<h.f>>,
                                           !.pixel_data_loc = h.loc], h.uid),
                      h.uid)

\* _read_header
read_header(r) == HeaderRead(r, HeaderLoop(r.file[1], <<>>, r.pixel_data_loc))

\* line 530, c the outcome of the converter
ElementConverted(r, name, c) ==
    IF c.raised = "struct.error" THEN [r EXCEPT !.status = "shape"]
    ELSE IF c.raised /= "" THEN [r EXCEPT !.status = c.raised]
    ELSE [r EXCEPT !.info = Put(@, name, c.value)]

\* lines 525-530, entry what MINIDICT holds for the key of the element
ElementEntry(r, el, entry) ==
    IF el.group \notin GROUPS \/ entry = <<>> THEN r
    ELSE ElementConverted(r, entry[1],
                          Convert(entry[2], el.value, r.is_little_endian))

\* the reader after a call of _readDataElement
ElementRead(r, el) ==
    [r EXCEPT !.file = <<el.f>>, !.pixel_data_loc = LocAfter(el, @)]

DataElement(r, el) ==
    IF el.raised /= "" THEN [ElementRead(r, el) EXCEPT !.status = "shape"]
    ELSE ElementEntry(ElementRead(r, el), el, MINIDICT_get(el.group, el.element))

\* One round of the loop of _read_data_elements.  EOFError and struct.error,
\* from the element or from its converter, end the loop; another exception
\* of a converter leaves the constructor.
read_data_element(r) ==
    DataElement(r, readDataElement(r.file[1], r.is_implicit_VR,
                                   r.is_little_endian))

ShapeRaised(exc) == [raised |-> exc, shape |-> <<>>, sampling |-> <<>>]

\* lines 574-586: the exception raised ("" for none) and the shape
ShapeOf(info) ==
    IF Has(info, "NumberOfFrames") /\ info["NumberOfFrames"].t /= "int"
    THEN ShapeRaised("TypeError")
    ELSE IF ~Has(info, "SamplesPerPixel") THEN ShapeRaised("AttributeError")
    ELSE IF Has(info, "NumberOfFrames") /\ info["NumberOfFrames"].v > 1
    THEN IF ~Has(info, "Rows") \/ ~Has(info, "Columns")
         THEN ShapeRaised("AttributeError")
         ELSE [raised |-> "",
               shape |-> GetShape(<<info["NumberOfFrames"].v>>,
                                  info["SamplesPerPixel"].v, 0,
                                  info["Rows"].v, info["Columns"].v)]
    ELSE IF info["SamplesPerPixel"].v > 1 /\ ~Has(info, "BitsAllocated")
    THEN ShapeRaised("AttributeError")
    ELSE IF info["SamplesPerPixel"].v > 1 /\ info["BitsAllocated"].v /= 8
    THEN ShapeRaised("NotImplementedError")
    ELSE IF ~Has(info, "Rows") \/ ~Has(info, "Columns")
    THEN ShapeRaised("AttributeError")
    ELSE [raised |-> "",
          shape |-> GetShape(<<>>, info["SamplesPerPixel"].v, 8,
                             info["Rows"].v, info["Columns"].v)]

\* float(c) of the two characters of a PixelSpacing that is a str
SpacingOfChars(c1, c2) ==
    IF ~(c1.ok /\ c2.ok) THEN ShapeRaised("ValueError")
    ELSE [raised |-> "", sampling |-> <<Frac(c1.value.v, 2), Frac(c2.value.v, 2)>>]

\* line 589: float(PixelSpacing[0]), float(PixelSpacing[1])
SpacingOf(ps) ==
    IF ps.t = "float" THEN ShapeRaised("TypeError")
    ELSE IF Len(ps.v) < 2 THEN ShapeRaised("IndexError")
    ELSE IF ps.t = "str"
    THEN SpacingOfChars(ParseNumber(<<ps.v[1]>>, "float"),
                        ParseNumber(<<ps.v[2]>>, "float"))
    ELSE [raised |-> "", sampling |-> <<Frac(ps.v[1].v, 2), Frac(ps.v[2].v, 2)>>]

\* lines 589-598, sh the shape and sp the pixel spacing
ShapeAndSampling(info, sh, sp) ==
    IF sp.raised /= "" THEN ShapeRaised(sp.raised)
    ELSE IF Has(info, "SliceSpacing") /\ info["SliceSpacing"].t /= "float"
    THEN ShapeRaised("TypeError")
    ELSE [raised |-> "", shape |-> sh.shape,
          sampling |-> GetSampling(sh.shape, sp.sampling,
                                   IF Has(info, "SliceSpacing")
                                   THEN <<<<info["SliceSpacing"].v, 2>>>>
                                   ELSE <<>>)]

ShapeThenSampling(info, sh) ==
    IF sh.raised /= "" THEN sh
    ELSE IF ~Has(info, "PixelSpacing") THEN ShapeRaised("AttributeError")
    ELSE ShapeAndSampling(info, sh, SpacingOf(info["PixelSpacing"]))

\* _get_shape_and_sampling on the info dict: the exception raised, or the
\* shape and the sampling
get_shape_and_sampling(info) == ShapeThenSampling(info, ShapeOf(info))

\* lines 397-401, s the outcome of _get_shape_and_sampling
ReadFinished(r, s) ==
    IF s.raised /= "" THEN [r EXCEPT !.status = s.raised]
    ELSE [r EXCEPT !.info = Put(Put(@, "shape", [t |-> "shape", v |-> s.shape]),
                                "sampling", [t |-> "sampling", v |-> s.sampling]),
                   !.file = IF r.isfile THEN <<>> ELSE @,
                   !.handle = IF r.isfile /\ @ = "open" THEN "closed" ELSE @,
                   !.status = "parsed"]

\* _read, lines 396-401: the shape and sampling, then the file is closed if
\* the reader was given the name of a file
read_finish(r) == ReadFinished(r, get_shape_and_sampling(r.info))

\* b'Data converted to numpy array, raw data removed to preserve memory'
DataConverted ==
    <<68, 97, 116, 97, 32, 99, 111, 110, 118, 101, 114, 116, 101, 100, 32, 116,
      111, 32, 110, 117, 109, 112, 121, 32, 97, 114, 114, 97, 121, 44, 32, 114,
      97, 119, 32, 100, 97, 116, 97, 32, 114, 101, 109, 111, 118, 101, 100, 32,
      116, 111, 32, 112, 114, 101, 115, 101, 114, 118, 101, 32, 109, 101, 109,
      111, 114, 121>>

\* info.get(name)
Optional(info, name) == IF Has(info, name) THEN <<info[name].v>> ELSE <<>>

\* the tags _pixel_data_numpy and _apply_slope_and_offset read
PixelInfo(info) ==
    [BitsAllocated |-> info["BitsAllocated"].v,
     PixelRepresentation |-> info["PixelRepresentation"].v,
     PixelData |-> info["PixelData"].v,
     shape |-> info["shape"].v,
     RescaleSlope |-> Optional(info, "RescaleSlope"),
     RescaleIntercept |-> Optional(info, "RescaleIntercept")]

\* the call ends with the exception e
ArrayRaised(r, e) == [r EXCEPT !.status = e, !.calls = @ + 1]

\* float(info[name]) raises
NotAFloat(info, name) == Has(info, name) /\ info[name].t /= "float"

FloatRaises(info, name) ==
    IF info[name].t = "str" THEN "ValueError" ELSE "TypeError"

\* the rescale values given, one after the other
RescaleValues(pi) == pi.RescaleSlope \o pi.RescaleIntercept

\* lines 559-565, raw the outcome of _pixel_data_numpy
ArrayRescaled(r, pi, raw) ==
    IF raw.raised /= "" THEN ArrayRaised(r, raw.raised)
    ELSE IF NotAFloat(r.info, "RescaleSlope")
    THEN ArrayRaised(r, FloatRaises(r.info, "RescaleSlope"))
    ELSE IF NotAFloat(r.info, "RescaleIntercept")
    THEN ArrayRaised(r, FloatRaises(r.info, "RescaleIntercept"))
    ELSE IF /\ raw.data.values = <<>>
            /\ RescaleValues(pi) /= <<>>
            /\ \A i \in 1..Len(RescaleValues(pi)) : RescaleValues(pi)[i] % 2 = 0
    THEN ArrayRaised(r, "ValueError")
    ELSE [r EXCEPT !.info = Put(@, "PixelData", BytesVal(DataConverted)),
                   !.array = <<apply_slope_and_offset(pi, raw.data)>>,
                   !.calls = @ + 1]

\* line 558
ArrayOfPixelInfo(r, pi) ==
    ArrayRescaled(r, pi, pixel_data_numpy(pi, r.is_little_endian,
                                          r.sys_is_little_endian))

\* lines 558-565, the PixelData loaded
ArrayOfLoaded(r) ==
    IF r.status = "EOFError" THEN ArrayRaised(r, "EOFError")
    ELSE IF ~Has(r.info, "PixelRepresentation") THEN ArrayRaised(r, "AttributeError")
    ELSE IF r.info["PixelRepresentation"].v \notin {0, 1}
    THEN ArrayRaised(r, "IndexError")
    ELSE IF ~Has(r.info, "BitsAllocated") THEN ArrayRaised(r, "AttributeError")
    ELSE IF r.info["BitsAllocated"].v \notin {8, 16, 32, 64}
    THEN ArrayRaised(r, "UnboundLocalError")
    ELSE IF r.info["BitsAllocated"].v = 64 THEN ArrayRaised(r, "64 bits")
    ELSE ArrayOfPixelInfo(r, PixelInfo(r.info))

\* line 551, u the outcome of _read_undefined_length_value
LoadedUndefined(r, u) ==
    IF u.raised THEN [r EXCEPT !.file = <<u.fp>>, !.status = "EOFError"]
    ELSE [r EXCEPT !.file = <<u.fp>>,
                   !.info = Put(@, "PixelData", BytesVal(u.value))]

\* line 553, v the outcome of f.read(vl)
LoadedValue(r, v) ==
    [r EXCEPT !.file = <<v.f>>, !.info = Put(@, "PixelData", BytesVal(v.bytes))]

\* lines 548-553, f the file object after f.seek(here)
LoadAt(r, f) ==
    IF r.pixel_data_loc[2] = UndefinedLength
    THEN LoadedUndefined(r, read_undefined_length_value(f, r.is_little_endian))
    ELSE LoadedValue(r, Read(f, LenOf(r.pixel_data_loc[2])))

\* a load that takes place in the first call only
LoadPixelDataOnce(r) ==
    IF r.calls > 0 \/ ~(r.pixel_data_loc /= <<>> /\ Len(r.info["PixelData"].v) < 100)
    THEN r
    ELSE LoadAt(r, Seek(IF r.file = <<>> THEN FileObject(r.disk) ELSE r.file[1],
                        r.pixel_data_loc[1]))

\* lines 544-555: the deferred PixelData is read from self._file or, when
\* that is closed, from the file reopened by name, the file on disk
LoadPixelData(r) ==
    IF ~(r.pixel_data_loc /= <<>> /\ Len(r.info["PixelData"].v) < 100) THEN r
    ELSE LoadAt(r, Seek(IF r.file = <<>> THEN FileObject(r.disk) ELSE r.file[1],
                        r.pixel_data_loc[1]))

\* get_numpy_array
get_numpy_array(r) ==
    IF ~Has(r.info, "PixelData") THEN ArrayRaised(r, "TypeError")
    ELSE ArrayOfLoaded(LoadPixelData(r))

----------------------------------------------------------------------------
(* DicomSeries                                                              *)

\* DicomSeries.__init__ : a fresh object with identity oid
DicomSeries(oid, suid) ==
    [oid |-> oid, suid |-> suid, entries |-> <<>>, info |-> <<>>]

\* a sort that is not stable: x goes before the elements of equal key
InsertBeforeEqual(S, x) ==
    LET k == Cardinality({i \in 1..Len(S) : S[i].inst[1] < x.inst[1]})
    IN  SubSeq(S, 1, k) \o <<x>> \o SubSeq(S, k + 1, Len(S))

\* list.sort(key=InstanceNumber) is stable: x goes after every element whose
\* key is not greater
InsertByInstance(S, x) ==
    LET k == Cardinality({i \in 1..Len(S) : S[i].inst[1] <= x.inst[1]})
    IN  SubSeq(S, 1, k) \o <<x>> \o SubSeq(S, k + 1, Len(S))

RECURSIVE SortedByInstance(_)
SortedByInstance(L) ==
    IF L = <<>> THEN <<>>
    ELSE InsertByInstance(SortedByInstance(SubSeq(L, 1, Len(L) - 1)), L[Len(L)])

\* DicomSeries._sort raises AttributeError when an entry has no InstanceNumber
SortRaises(L) == \E i \in 1..Len(L) : L[i].inst = <<>>

\* the entries left in the order in which they were appended
Unsorted(L) == L

DicomSeries_sort(L) == SortedByInstance(L)

\* sampling of a slice as _finish and the split compare it
SliceSampling(ds) == <<ds.ps[1], ds.ps[2]>>

\* One round of the loop of DicomSeries._finish over the slice ds2.  w holds
\* ds1, distance_sum, the messages written and whether the round raised.
FinishStep(w, ds2, first) ==
    IF w.raised THEN w
    ELSE IF w.ds1.z = <<>> \/ ds2.z = <<>>
    THEN [w EXCEPT !.raised = TRUE]                      \* AttributeError
    ELSE IF <<first.rows, first.cols>> /= <<ds2.rows, ds2.cols>>
    THEN [w EXCEPT !.raised = TRUE]                      \* ValueError
    ELSE [ds1 |-> ds2,
          distance_sum |-> w.distance_sum + Abs(w.ds1.z[1] - ds2.z[1]),
          writes |-> IF SliceSampling(first) /= SliceSampling(ds2)
                     THEN Append(w.writes, "Warning: sampling does not match.")
                     ELSE w.writes,
          raised |-> FALSE]

RECURSIVE FinishLoop(_, _, _)
FinishLoop(L, index, first) ==
    IF index = 0
    THEN [ds1 |-> first, distance_sum |-> 0, writes |-> <<>>, raised |-> FALSE]
    ELSE FinishStep(FinishLoop(L, index - 1, first), L[index], first)

\* the slice whose shape and sampling _finish appends to the series' own
SliceOfShape(L) == L[Len(L)]

\* DicomSeries._finish: [raised, info, writes]; info is <<>> for the empty
\* dict and <<d>> for a dict d
DicomSeries_finish(serie) ==
    LET L == serie.entries
        N == Len(L)
    IN  IF N = 0 THEN [raised |-> FALSE, info |-> serie.info, writes |-> <<>>]
        ELSE IF N = 1 THEN [raised |-> FALSE, info |-> <<L[1]>>, writes |-> <<>>]
        ELSE LET w == FinishLoop(L, N, L[1])
                 ds2 == SliceOfShape(L)
                 distance_mean == Frac(w.distance_sum, N - 1)
             IN  IF w.raised
                 THEN [raised |-> TRUE, info |-> serie.info, writes |-> w.writes]
                 ELSE [raised |-> FALSE,
                       info |-> <<[L[1] EXCEPT
                                    !.shape = <<N>> \o ds2.shape,
                                    !.sampling = <<distance_mean>> \o ds2.sampling]>>,
                       writes |-> w.writes]

----------------------------------------------------------------------------
(* splitSerieIfRequired                                                     *)

\* the round without the test that a distance has been seen
SplitStepUnguarded(w, ds2) ==
    IF w.raised THEN w
    ELSE IF ds2.z = <<>>
    THEN [w EXCEPT !.raised = TRUE]
    ELSE LET newDist == Abs(w.ds1.z[1] - ds2.z[1])
             split == 10 * newDist > 21 * w.distance
             warn == ~split /\ w.distance /= 0 /\ 10 * newDist > 15 * w.distance
             L2a == IF split THEN Append(w.L2, <<>>) ELSE w.L2
         IN  [ds1 |-> ds2,
              distance |-> IF split THEN 0 ELSE newDist,
              L2 |-> [L2a EXCEPT ![Len(L2a)] = Append(@, ds2)],
              writes |-> IF warn THEN Append(w.writes, "Warning: missing file")
                                 ELSE w.writes,
              raised |-> FALSE]

\* the round that keeps the previous slice when it starts a new list
SplitStepStalePrevious(w, ds2) ==
    IF w.raised THEN w
    ELSE IF ds2.z = <<>>
    THEN [w EXCEPT !.raised = TRUE]
    ELSE LET newDist == Abs(w.ds1.z[1] - ds2.z[1])
             split == w.distance /= 0 /\ 10 * newDist > 21 * w.distance
             warn == ~split /\ w.distance /= 0 /\ 10 * newDist > 15 * w.distance
             L2a == IF split THEN Append(w.L2, <<>>) ELSE w.L2
         IN  [ds1 |-> IF split THEN w.ds1 ELSE ds2,
              distance |-> IF split THEN 0 ELSE newDist,
              L2 |-> [L2a EXCEPT ![Len(L2a)] = Append(@, ds2)],
              writes |-> IF warn THEN Append(w.writes, "Warning: missing file")
                                 ELSE w.writes,
              raised |-> FALSE]

\* One round of the loop over the sorted slices.  w holds ds1, distance, the
\* list of lists L2, the messages written and whether the round raised.
SplitStep(w, ds2) ==
    IF w.raised THEN w
    ELSE IF ds2.z = <<>>
    THEN [w EXCEPT !.raised = TRUE]                      \* AttributeError
    ELSE LET newDist == Abs(w.ds1.z[1] - ds2.z[1])
             split == w.distance /= 0 /\ 10 * newDist > 21 * w.distance
             warn == ~split /\ w.distance /= 0 /\ 10 * newDist > 15 * w.distance
             L2a == IF split THEN Append(w.L2, <<>>) ELSE w.L2
         IN  [ds1 |-> ds2,
              distance |-> IF split THEN 0 ELSE newDist,
              L2 |-> [L2a EXCEPT ![Len(L2a)] = Append(@, ds2)],
              writes |-> IF warn THEN Append(w.writes, "Warning: missing file")
                                 ELSE w.writes,
              raised |-> FALSE]

RECURSIVE SplitLoop(_, _)
SplitLoop(L, index) ==
    IF index = 1
    THEN [ds1 |-> L[1], distance |-> 0, L2 |-> <<<<L[1]>>>>, writes |-> <<>>,
          raised |-> FALSE]
    ELSE SplitStep(SplitLoop(L, index - 1), L[index])

\* series.index(serie): DicomSeries defines no __eq__, objects compare by identity
IndexOf(list, oid) == CHOOSE i \in 1..Len(list) : list[i].oid = oid

InsertAt(list, i, x) == SubSeq(list, 1, i - 1) \o <<x>> \o SubSeq(list, i, Len(list))

RemoveAt(list, i) == SubSeq(list, 1, i - 1) \o SubSeq(list, i + 1, Len(list))

\* for newSerie in series2insert: series.insert(i, newSerie)
RECURSIVE InsertAllForward(_, _, _)
InsertAllForward(list, i, series2insert) ==
    IF series2insert = <<>> THEN list
    ELSE InsertAllForward(InsertAt(list, i, Head(series2insert)), i,
                          Tail(series2insert))

\* for newSerie in reversed(series2insert): series.insert(i, newSerie)
RECURSIVE InsertAll(_, _, _)
InsertAll(list, i, series2insert) ==
    IF series2insert = <<>> THEN list
    ELSE InsertAll(InsertAt(list, i, series2insert[Len(series2insert)]), i,
                   SubSeq(series2insert, 1, Len(series2insert) - 1))

\* splitSerieIfRequired(serie, series, progressIndicator) on the series object
\* oid of list: [raised, series, writes, nextOid]
splitSerieIfRequired(oid, list, firstOid) ==
    LET i == IndexOf(list, oid)
        serie == list[i]
    IN  IF SortRaises(serie.entries)
        THEN [raised |-> TRUE, series |-> list, writes |-> <<>>, nextOid |-> firstOid]
        ELSE
        LET L == DicomSeries_sort(serie.entries)
            sorted == [list EXCEPT ![i].entries = L]
        IN  IF L[1].z = <<>>
            THEN [raised |-> FALSE, series |-> sorted, writes |-> <<>>,
                  nextOid |-> firstOid]
            ELSE
            LET w == SplitLoop(L, Len(L))
                series2insert ==
                    [k \in 1..Len(w.L2) |->
                        [DicomSeries(firstOid + k - 1, serie.suid)
                            EXCEPT !.entries = w.L2[k]]]
            IN  IF w.raised
                THEN [raised |-> TRUE, series |-> sorted, writes |-> w.writes,
                      nextOid |-> firstOid]
                ELSE IF Len(w.L2) > 1
                THEN LET ins == InsertAll(sorted, i, series2insert)
                     IN  [raised |-> FALSE,
                          series |-> RemoveAt(ins, IndexOf(ins, oid)),
                          writes |-> w.writes,
                          nextOid |-> firstOid + Len(w.L2)]
                ELSE [raised |-> FALSE, series |-> sorted, writes |-> w.writes,
                      nextOid |-> firstOid]

----------------------------------------------------------------------------
(* process_directory                                                        *)

\* A file of the directory: name is its identity, dicomdir says whether the
\* name contains "DICOMDIR", kind is what SimpleDicomReader(filename) does
\* with its bytes: "dicom" (a dataset), "notdicom" (NotADicomFile) or "error"
\* (any other exception), and the remaining fields are the dataset's tags.
File(name, dicomdir, kind, suid, inst, z, rows, ps, nframes) ==
    [name |-> name, dicomdir |-> dicomdir, kind |-> kind, suid |-> suid,
     inst |-> inst, z |-> z, rows |-> rows, cols |-> 2, ps |-> ps,
     nframes |-> nframes]

HasSeries(list, suid) == \E i \in 1..Len(list) : list[i].suid = suid

\* One round of the loop over the files: [series, writes, nextOid].  The dict
\* of series is kept as the list of its values in insertion order.
IngestOne(list, f, oid) ==
    IF f.dicomdir
    THEN [series |-> list, writes |-> <<>>, nextOid |-> oid]
    ELSE IF f.kind = "notdicom"
    THEN [series |-> list, writes |-> <<>>, nextOid |-> oid]
    ELSE IF f.kind = "error"
    THEN [series |-> list, writes |-> <<"str(why)">>, nextOid |-> oid]
    ELSE IF f.suid = <<>>
    THEN [series |-> list, writes |-> <<>>, nextOid |-> oid]
    ELSE LET suid == f.suid[1]
             withNew == IF HasSeries(list, suid) THEN list
                        ELSE Append(list, DicomSeries(oid, suid))
             k == CHOOSE i \in 1..Len(withNew) : withNew[i].suid = suid
         IN  [series |-> [withNew EXCEPT ![k].entries = Append(@, Dataset(f))],
              writes |-> <<>>,
              nextOid |-> IF HasSeries(list, suid) THEN oid ELSE oid + 1]

\* series.sort(key=lambda x: x.suid), stable
InsertBySuid(S, x) ==
    LET k == Cardinality({i \in 1..Len(S) : S[i].suid <= x.suid})
    IN  SubSeq(S, 1, k) \o <<x>> \o SubSeq(S, k + 1, Len(S))

RECURSIVE SortedBySuid(_)
SortedBySuid(list) ==
    IF list = <<>> THEN <<>>
    ELSE InsertBySuid(SortedBySuid(SubSeq(list, 1, Len(list) - 1)), list[Len(list)])

\* reversed([serie for serie in series]), as object identities
ReversedOids(list) == [i \in 1..Len(list) |-> list[Len(list) + 1 - i].oid]

ScanInit(fs) ==
    /\ files = fs
    /\ fidx = 1
    /\ series = <<>>
    /\ todo = <<>>
    /\ fin = 0
    /\ series_ = <<>>
    /\ progress = <<>>
    /\ nextOid = 1
    /\ pc = "ingest"

\* lines 947-969: one file of the ingest loop
IngestFile ==
    /\ pc = "ingest"
    /\ fidx <= Len(files)
    /\ LET r == IngestOne(series, files[fidx], nextOid)
       IN  /\ series' = r.series
           /\ progress' = progress \o r.writes
           /\ nextOid' = r.nextOid
    /\ fidx' = fidx + 1
    /\ UNCHANGED <<files, todo, fin, series_, pc>>
    /\ UNCHANGED <<ul, px, rd, plugin>>

\* lines 974-979: the dict becomes a list sorted by suid; the split loop
\* walks a reversed copy of it
SortSeries ==
    /\ pc = "ingest"
    /\ fidx > Len(files)
    /\ series' = SortedBySuid(series)
    /\ todo' = ReversedOids(series')
    /\ pc' = "split"
    /\ UNCHANGED <<files, fidx, fin, series_, progress, nextOid>>
    /\ UNCHANGED <<ul, px, rd, plugin>>

\* line 980: splitSerieIfRequired on the next series of the reversed copy; an
\* exception it raises leaves process_directory
SplitNext ==
    /\ pc = "split"
    /\ todo /= <<>>
    /\ LET r == splitSerieIfRequired(Head(todo), series, nextOid)
       IN  /\ series' = r.series
           /\ progress' = progress \o r.writes
           /\ nextOid' = r.nextOid
           /\ pc' = IF r.raised THEN "raised" ELSE "split"
    /\ todo' = Tail(todo)
    /\ UNCHANGED <<files, fidx, fin, series_>>
    /\ UNCHANGED <<ul, px, rd, plugin>>

\* line 984: series_ = []
StartFinish ==
    /\ pc = "split"
    /\ todo = <<>>
    /\ pc' = "finish"
    /\ fin' = 1
    /\ series_' = <<>>
    /\ UNCHANGED <<files, fidx, series, todo, progress, nextOid>>
    /\ UNCHANGED <<ul, px, rd, plugin>>

\* the slices of L do not all have the Rows and Columns of the first
Disagree(L) ==
    \E i \in 1..Len(L) : <<L[i].rows, L[i].cols>> /= <<L[1].rows, L[1].cols>>

\* ValueError('Dimensions of slices does not match.'), line 889
DimensionsMessage == "Dimensions of slices does not match."

\* the loop with an except clause that writes str(why) for the ValueError
FinishNextLogged ==
    /\ pc = "finish"
    /\ fin <= Len(series)
    /\ LET r == DicomSeries_finish(series[fin])
       IN  /\ series' = [series EXCEPT ![fin].info = r.info]
           /\ progress' = progress \o r.writes
                   \o (IF r.raised /\ Disagree(series[fin].entries)
                       THEN <<DimensionsMessage>> ELSE <<>>)
           /\ series_' = IF r.raised THEN series_
                         ELSE Append(series_, series'[fin])
    /\ fin' = fin + 1
    /\ UNCHANGED <<files, fidx, todo, nextOid, pc>>
    /\ UNCHANGED <<ul, px, rd, plugin>>

\* lines 985-991: _finish on series[i]; a series whose _finish raises is left
\* out of series_
FinishNext ==
    /\ pc = "finish"
    /\ fin <= Len(series)
    /\ LET r == DicomSeries_finish(series[fin])
       IN  /\ series' = [series EXCEPT ![fin].info = r.info]
           /\ progress' = progress \o r.writes
           /\ series_' = IF r.raised THEN series_
                         ELSE Append(series_, series'[fin])
    /\ fin' = fin + 1
    /\ UNCHANGED <<files, fidx, todo, nextOid, pc>>
    /\ UNCHANGED <<ul, px, rd, plugin>>

\* lines 992-995
Return ==
    /\ pc = "finish"
    /\ fin > Len(series)
    /\ pc' = "done"
    /\ UNCHANGED <<files, fidx, series, todo, fin, series_, progress, nextOid>>
    /\ UNCHANGED <<ul, px, rd, plugin>>

ScanNext ==
    \/ IngestFile
    \/ SortSeries
    \/ SplitNext
    \/ StartFinish
    \/ FinishNext
    \/ Return

----------------------------------------------------------------------------
(* process_directory as a function of the enumeration order                 *)

RECURSIVE IngestAll(_, _)
IngestAll(fs, n) ==
    IF n = 0 THEN [series |-> <<>>, writes |-> <<>>, nextOid |-> 1]
    ELSE LET a == IngestAll(fs, n - 1)
             r == IngestOne(a.series, fs[n], a.nextOid)
         IN  [series |-> r.series, writes |-> a.writes \o r.writes,
              nextOid |-> r.nextOid]

RECURSIVE SplitAll(_, _)
SplitAll(st, oids) ==
    IF oids = <<>> \/ st.raised THEN st
    ELSE LET r == splitSerieIfRequired(Head(oids), st.series, st.nextOid)
         IN  SplitAll([raised |-> r.raised, series |-> r.series,
                       writes |-> st.writes \o r.writes, nextOid |-> r.nextOid],
                      Tail(oids))

RECURSIVE FinishAll(_, _)
FinishAll(list, n) ==
    IF n = 0 THEN <<>>
    ELSE LET r == DicomSeries_finish(list[n])
         IN  IF r.raised THEN FinishAll(list, n - 1)
             ELSE Append(FinishAll(list, n - 1), [list[n] EXCEPT !.info = r.info])

\* what a caller can see of a series: not the object's identity
Visible(list) ==
    [i \in 1..Len(list) |->
        [suid |-> list[i].suid, entries |-> list[i].entries, info |-> list[i].info]]

\* the outcome of process_directory over the enumeration fs: whether it
\* raised, and the series list it returned
process_directory(fs) ==
    LET a == IngestAll(fs, Len(fs))
        sorted == SortedBySuid(a.series)
        s == SplitAll([raised |-> FALSE, series |-> sorted, writes |-> <<>>,
                       nextOid |-> a.nextOid], ReversedOids(sorted))
    IN  IF s.raised THEN [raised |-> TRUE, series |-> <<>>]
        ELSE [raised |-> FALSE, series |-> Visible(FinishAll(s.series, Len(s.series)))]

----------------------------------------------------------------------------
(* The directories scanned.                                                 *)

Opt(S) == {<<>>} \cup {<<v>> : v \in S}

\* one series whose slices differ in InstanceNumber and position
ContentA == [inst : Opt({1, 2, 3}), z : Opt({0, 1, 4})]

FilesA(c) ==
    [i \in 1..Len(c) |->
        File(i, FALSE, "dicom", <<1>>, c[i].inst, c[i].z, 2, 1, <<>>)]

\* one series whose slices differ in Rows, PixelSpacing and NumberOfFrames
ContentB == [rows : {2, 3}, ps : {1, 2}, nframes : Opt({2})]

FilesB(c) ==
    [i \in 1..Len(c) |->
        File(i, FALSE, "dicom", <<1>>, <<i>>, <<3 * i>>,
             c[i].rows, c[i].ps, c[i].nframes)]

\* a slice of series suid with the default geometry
Slice(name, suid, inst, z) ==
    File(name, FALSE, "dicom", <<suid>>, <<inst>>, <<z>>, 2, 1, <<>>)

\* z-positions 0, 1, 2, 10, 11, 12
SixSlices ==
    <<Slice(1, 1, 1, 0), Slice(2, 1, 2, 1), Slice(3, 1, 3, 2),
      Slice(4, 1, 4, 10), Slice(5, 1, 5, 11), Slice(6, 1, 6, 12)>>

\* z-positions 0, 1, 2, 10, 11, 14: three buckets
GatedSlices ==
    <<Slice(1, 1, 1, 0), Slice(2, 1, 2, 1), Slice(3, 1, 3, 2),
      Slice(4, 1, 4, 10), Slice(5, 1, 5, 11), Slice(6, 1, 6, 14)>>

\* z-positions 0, 1, 2, 3.6, 4.6 in tenths
MissingSlice ==
    <<Slice(1, 1, 1, 0), Slice(2, 1, 2, 10), Slice(3, 1, 3, 20),
      Slice(4, 1, 4, 36), Slice(5, 1, 5, 46)>>

\* (S,1,0), (S,2,1), (S,3,2), (S,4,10)
FourSlices ==
    <<Slice(1, 1, 1, 0), Slice(2, 1, 2, 1), Slice(3, 1, 3, 2), Slice(4, 1, 4, 10)>>

\* three series: two that split and one whose slices disagree on Rows, among
\* files that are skipped
MixedDirectory ==
    <<Slice(1, 3, 1, 0),
      File(2, FALSE, "notdicom", <<>>, <<>>, <<>>, 2, 1, <<>>),
      Slice(3, 1, 2, 1),
      File(4, FALSE, "dicom", <<2>>, <<1>>, <<0>>, 2, 1, <<>>),
      Slice(5, 3, 3, 5),
      Slice(6, 1, 1, 0),
      File(7, FALSE, "error", <<>>, <<>>, <<>>, 2, 1, <<>>),
      Slice(8, 3, 2, 1),
      File(9, FALSE, "dicom", <<2>>, <<2>>, <<1>>, 3, 1, <<>>),
      File(10, TRUE, "dicom", <<1>>, <<1>>, <<0>>, 2, 1, <<>>),
      Slice(11, 1, 3, 7),
      File(12, FALSE, "dicom", <<>>, <<1>>, <<0>>, 2, 1, <<>>)>>

Reversed(fs) == [i \in 1..Len(fs) |-> fs[Len(fs) + 1 - i]]

Rotations(fs) ==
    {[i \in 1..Len(fs) |-> fs[((i + k - 1) % Len(fs)) + 1]] : k \in 0..(Len(fs) - 1)}

Scenarios ==
    UNION {Rotations(fs) \cup {Reversed(fs)}
           : fs \in {SixSlices, GatedSlices, MissingSlice, FourSlices,
                     MixedDirectory}}

----------------------------------------------------------------------------
(* The directory scan.                                                      *)

ScanInput ==
    \/ \E n \in 1..MaxFiles : \E c \in [1..n -> ContentA] : ScanInit(FilesA(c))
    \/ \E n \in 2..MaxFiles : \E c \in [1..n -> ContentB] : ScanInit(FilesB(c))
    \/ \E fs \in Scenarios : ScanInit(fs)

Init ==
    /\ ScanInput
    /\ ul = Idle
    /\ px = Idle
    /\ rd = Idle
    /\ plugin = Idle

Next == ScanNext

Spec == Init /\ [][Next]_vars

----------------------------------------------------------------------------
(* Properties of the directory scan.                                        *)

\* the place of the file called name in the enumeration
Pos(name) == CHOOSE i \in 1..Len(files) : files[i].name = name

\* a comes before b in InstanceNumber order, ties broken by ingest order
Before(a, b) ==
    \/ a.inst[1] < b.inst[1]
    \/ a.inst[1] = b.inst[1] /\ Pos(a.filename) < Pos(b.filename)

\* the split loop has ended and no series has been finished yet
AfterSplit == pc = "finish" /\ fin = 1

Suids(list) == {list[i].suid : i \in 1..Len(list)}

\* the series of list that carry suid, in list order
OfSuid(list, suid) ==
    LET idx == {i \in 1..Len(list) : list[i].suid = suid}
        nth(k) == CHOOSE i \in idx : Cardinality({j \in idx : j < i}) = k - 1
    IN  [k \in 1..Cardinality(idx) |-> list[nth(k)]]

\* the slices of the buckets, one after the other
SlicesOf(buckets) == Concat([k \in 1..Len(buckets) |-> buckets[k].entries])

\* the indices, among the slices, at which a bucket starts
BucketStarts(buckets) ==
    {1 + Len(SlicesOf(SubSeq(buckets, 1, k - 1))) : k \in 1..Len(buckets)}

AllHaveZ(L) == \A i \in 1..Len(L) : L[i].z /= <<>>

\* The bucket starts the split rule prescribes for the slices L[1..i]: slice i
\* starts a bucket when the current bucket has a recorded gap (slice i-1 is
\* not the first of its bucket) and the gap to slice i exceeds 2.1 times it.
\* With nonzero, a recorded gap of 0 never splits.
RECURSIVE RuleStarts(_, _, _)
RuleStarts(L, i, nonzero) ==
    IF i = 1 THEN {1}
    ELSE LET prev == RuleStarts(L, i - 1, nonzero)
             recorded == i >= 3 /\ (i - 1) \notin prev
             gap == Abs(L[i].z[1] - L[i - 1].z[1])
             rec == Abs(L[i - 1].z[1] - L[i - 2].z[1])
         IN  IF recorded /\ (nonzero => rec /= 0) /\ 10 * gap > 21 * rec
             THEN prev \cup {i} ELSE prev

SplitFollowsRule(nonzero) ==
    AfterSplit =>
        \A suid \in Suids(series) :
            LET buckets == OfSuid(series, suid)
                L == SlicesOf(buckets)
            IN  AllHaveZ(L) => BucketStarts(buckets) = RuleStarts(L, Len(L), nonzero)

\* C5 as stated: walking the slices of a series in InstanceNumber order, a pair
\* of consecutive slices starts a new bucket exactly when its z-gap exceeds 2.1
\* times the previous gap recorded in the current bucket, a recorded gap of 0
\* included.
C5_SplitOnEveryRecordedGap == SplitFollowsRule(FALSE)

\* C5 amended: a pair of consecutive slices starts a new bucket exactly when
\* the current bucket has recorded a previous gap that is not 0 and the pair's
\* z-gap exceeds 2.1 times it; after two slices at the same z no gap splits.
C5_SplitOnNonzeroRecordedGap == SplitFollowsRule(TRUE)

\* z-positions 0, 1, 2, 10, 11, 12 have become two buckets of 3 slices
C5_Witness ==
    /\ AfterSplit
    /\ Len(series) = 2
    /\ Len(series[1].entries) = 3 /\ Len(series[2].entries) = 3
    /\ [i \in 1..3 |-> series[1].entries[i].z[1]] = <<0, 1, 2>>
    /\ [i \in 1..3 |-> series[2].entries[i].z[1]] = <<10, 11, 12>>

\* C6: splitting is idempotent: splitSerieIfRequired applied to every series
\* left by the split loop raises nothing and leaves the same series, with the
\* same slices in the same order.
C6_SplitIdempotent ==
    AfterSplit =>
        LET again == SplitAll([raised |-> FALSE, series |-> series, writes |-> <<>>,
                               nextOid |-> nextOid], ReversedOids(series))
        IN  ~again.raised /\ Visible(again.series) = Visible(series)

\* a series was split into three buckets, one of them of three slices
C6_Witness ==
    /\ AfterSplit
    /\ Len(series) = 3
    /\ \E i \in 1..Len(series) : Len(series[i].entries) = 3

\* |z_2 - z_1| + ... + |z_n - z_(n-1)|
RECURSIVE SumOfGaps(_, _)
SumOfGaps(L, n) ==
    IF n <= 1 THEN 0
    ELSE SumOfGaps(L, n - 1) + Abs(L[n].z[1] - L[n - 1].z[1])

\* C7 as stated: a finished series of N >= 2 slices has sampling[0] equal to
\* the sum of the consecutive z-gaps divided by N-1, and takes the rest of
\* shape and sampling from its first slice.
C7_ShapeAndSamplingOfFirstSlice ==
    pc = "done" =>
        \A k \in 1..Len(series_) :
            LET L == series_[k].entries
                N == Len(L)
            IN  N >= 2 =>
                    /\ series_[k].info[1].shape = <<N>> \o L[1].shape
                    /\ series_[k].info[1].sampling
                           = <<Frac(SumOfGaps(L, N), N - 1)>> \o L[1].sampling

\* C8: the list returned is in non-decreasing SeriesInstanceUID order, and
\* the sub-series of one series stand in bucket order: every slice of an
\* earlier one comes before every slice of a later one.
C8_SeriesListOrder ==
    pc = "done" =>
        \A i, j \in 1..Len(series_) :
            i < j =>
                /\ series_[i].suid <= series_[j].suid
                /\ series_[i].suid = series_[j].suid =>
                       \A a \in Range(series_[i].entries),
                          b \in Range(series_[j].entries) : Before(a, b)

\* two series were split, a third was dropped by the finish loop
C8_Witness ==
    /\ pc = "done"
    /\ Len(series) = 5
    /\ [i \in 1..Len(series_) |-> series_[i].suid] = <<1, 1, 3, 3>>

\* C9: every series returned has its slices in ascending InstanceNumber
\* order, slices of equal InstanceNumber in ingest order.
C9_SlicesInInstanceOrder ==
    pc = "done" =>
        \A k \in 1..Len(series_) :
            \A i, j \in 1..Len(series_[k].entries) :
                i < j => Before(series_[k].entries[i], series_[k].entries[j])

\* a returned series holds two slices of equal InstanceNumber and was ingested
\* out of InstanceNumber order
C9_Witness ==
    /\ pc = "done"
    /\ \E k \in 1..Len(series_) :
           LET L == series_[k].entries
           IN  /\ \E i, j \in 1..Len(L) : i < j /\ L[i].inst = L[j].inst
               /\ \E i, j \in 1..Len(L) :
                      i < j /\ Pos(L[i].filename) > Pos(L[j].filename)

MaxPermuted == 4

Swap(fs, a, b) ==
    [i \in 1..Len(fs) |-> IF i = a THEN fs[b] ELSE IF i = b THEN fs[a] ELSE fs[i]]

\* other orders in which list_files may enumerate the files: every order of a
\* short list, every exchange of two files of a longer one
Orders(fs) ==
    IF Len(fs) <= MaxPermuted
    THEN {[i \in 1..Len(fs) |-> fs[p[i]]] : p \in Permutations(1..Len(fs))}
    ELSE {Swap(fs, a, b) : a, b \in 1..Len(fs)}

\* what the scan that ended in this state gave its caller
Outcome ==
    IF pc = "raised" THEN [raised |-> TRUE, series |-> <<>>]
    ELSE [raised |-> FALSE, series |-> Visible(series_)]

\* no two files that enter the same series carry the same InstanceNumber
Ingested(f) == ~f.dicomdir /\ f.kind = "dicom" /\ f.suid /= <<>>

NoTies(fs) ==
    \A i, j \in 1..Len(fs) :
        (i < j /\ Ingested(fs[i]) /\ Ingested(fs[j]) /\ fs[i].suid = fs[j].suid
            /\ fs[i].inst /= <<>>)
        => fs[i].inst /= fs[j].inst

\* C10 as stated: every order in which the files are enumerated gives the
\* same series list, with the same slices in the same order and the same
\* shape and sampling.
C10_AnyEnumerationOrder ==
    pc \in {"done", "raised"} =>
        \A fs \in Orders(files) : process_directory(fs) = Outcome

\* C10 amended: when no two files of one series carry the same
\* InstanceNumber, every order in which the files are enumerated gives the
\* same series list, with the same slices in the same order and the same
\* shape and sampling.
C10_OrderIndependentWithoutTies ==
    (pc \in {"done", "raised"} /\ NoTies(files)) =>
        \A fs \in Orders(files) : process_directory(fs) = Outcome

\* a scan without ties, enumerated out of InstanceNumber order, that returned
\* a split series
C10_Witness ==
    /\ pc = "done"
    /\ NoTies(files)
    /\ Len(series_) >= 2
    /\ \E i, j \in 1..Len(files) :
           i < j /\ files[i].suid = files[j].suid /\ files[i].inst /= <<>>
                 /\ files[j].inst /= <<>> /\ files[i].inst[1] > files[j].inst[1]

----------------------------------------------------------------------------
(* The undefined-length scan on its own.                                    *)

\* the scan variables of a specification that does not scan a directory
ScanIdle ==
    /\ files = <<>>
    /\ fidx = 0
    /\ series = <<>>
    /\ todo = <<>>
    /\ fin = 0
    /\ series_ = <<>>
    /\ progress = <<>>
    /\ nextOid = 0
    /\ pc = "idle"

MaxValueLen == 130

\* n bytes repeating pat
Repeat(n, pat) == [i \in 1..n |-> pat[((i - 1) % Len(pat)) + 1]]

\* values: zeros, and runs of the first three bytes of either delimiter
ValuePatterns == {<<0>>, <<254, 255, 221>>, <<255, 254, 224>>}

TailLens == {0, 3, 4, 120, 125, 128}

LeadLens == {0, 7}

\* lead ++ V ++ needle ++ 0x00000000 ++ tail, the cursor on the first byte
\* of V; V does not contain the needle
ULInit ==
    \E n \in 0..MaxValueLen, pat \in ValuePatterns, little \in BOOLEAN,
       t \in TailLens, l \in LeadLens :
        LET V == Repeat(n, pat)
            tail == Repeat(t, <<1>>)
            lead == Repeat(l, <<9>>)
            data == lead \o V \o BytesToFind(little) \o <<0, 0, 0, 0>> \o tail
        IN  /\ Find(V, BytesToFind(little)) = -1
            /\ ul = [s |-> ReadUndefinedStart(Seek(Stream(data), l), little),
                     V |-> V, tail |-> tail, lead |-> l]

ULRound ==
    /\ ul.s.status = "loop"
    /\ ~ul.s.found
    /\ ul' = [ul EXCEPT !.s = ReadUndefinedRound(@)]
    /\ UNCHANGED <<scanVars, px, rd, plugin>>

ULReturn ==
    /\ ul.s.status = "loop"
    /\ ul.s.found
    /\ ul' = [ul EXCEPT !.s = ReadUndefinedReturn(@)]
    /\ UNCHANGED <<scanVars, px, rd, plugin>>

ULNext ==
    \/ ULRound
    \/ ULReturn

InitUL ==
    /\ ULInit
    /\ ScanIdle
    /\ px = Idle
    /\ rd = Idle
    /\ plugin = Idle

SpecUL == InitUL /\ [][ULNext]_vars

ULDone == ul.s.status \in {"returned", "EOFError"}

\* the bytes of the input from the cursor's start on
ULInputLen == Len(ul.V) + 8 + Len(ul.tail)

\* A scan that returns, returns V and leaves the cursor on the tail.
ULReturnsTheValue ==
    ul.s.status = "returned" =>
        /\ ul.s.value_chunks = <<ul.V>>
        /\ ul.s.fp.pos = ul.lead + Len(ul.V) + 8
        /\ ~ul.s.printed

\* The scan raises EOFError exactly when the window in which the delimiter
\* starts, or an earlier one, reaches past the end of the file: windows start
\* every ReadSize - SearchRewind bytes, and the delimiter is found in the
\* first window that holds all four of its bytes.
ULWindowOfNeedle ==
    IF Len(ul.V) + 4 <= ReadSize THEN 0
    ELSE ((Len(ul.V) + 4 - ReadSize) + (ReadSize - SearchRewind) - 1)
             \div (ReadSize - SearchRewind)

ULRaisesWhenWindowShort ==
    ULDone =>
        (ul.s.status = "EOFError"
            <=> ULWindowOfNeedle * (ReadSize - SearchRewind) + ReadSize > ULInputLen)

\* C2: for every V without the delimiter and every tail, the scan of
\* V ++ needle ++ 0x00000000 ++ tail returns exactly V and leaves the cursor
\* on the first byte of tail.
C2_ScanReturnsValue ==
    ULDone =>
        /\ ul.s.status = "returned"
        /\ ul.s.value_chunks = <<ul.V>>
        /\ ul.s.fp.pos = ul.lead + Len(ul.V) + 8

----------------------------------------------------------------------------
(* The array of a dataset whose PixelData is loaded: the two calls of       *)
(* get_numpy_array, lines 558-559.                                          *)

MaxPixels == 2

ByteVals == {0, 1, 127, 128, 255}

\* the bytes of one element
ElementBytes(bits) ==
    [1..(bits \div 8) -> IF bits = 32 THEN {0, 128, 255} ELSE ByteVals]

\* twice the RescaleSlope: 1, -1, 16, 1/2
Slopes2 == {2, -2, 32, 1}

\* twice the RescaleIntercept: 0, -1024
Intercepts2 == {0, -2048}

PxLoaded(bits, rep, PixelData, shape, slope, intercept, little, sys) ==
    [info |-> [BitsAllocated |-> bits, PixelRepresentation |-> rep,
               PixelData |-> PixelData, shape |-> shape,
               RescaleSlope |-> slope, RescaleIntercept |-> intercept],
     is_little_endian |-> little, sys_is_little_endian |-> sys,
     raw |-> <<>>, data |-> <<>>, status |-> "loaded"]

PxInit ==
    \E rep \in {0, 1}, little \in BOOLEAN, sys \in BOOLEAN,
       slope \in Opt(Slopes2), intercept \in Opt(Intercepts2) :
        \* PixelData of the size the shape asks for
        \/ \E bits \in {8, 16, 32}, n \in 1..MaxPixels, fill \in {0, 255} :
            \E first \in ElementBytes(bits) :
                px = PxLoaded(bits, rep,
                              first \o Repeat((n - 1) * (bits \div 8), <<fill>>),
                              <<1, n>>, slope, intercept, little, sys)
        \* PixelData of another size
        \/ \E PixelData \in {<<1, 2>>, <<1, 2, 3>>} :
            px = PxLoaded(16, rep, PixelData, <<1, 2>>, slope, intercept,
                          little, sys)

\* line 558: data = self._pixel_data_numpy()
PixelDataNumpy ==
    /\ px.status = "loaded"
    /\ LET r == pixel_data_numpy(px.info, px.is_little_endian,
                                 px.sys_is_little_endian)
       IN  px' = [px EXCEPT !.raw = r.data,
                            !.status = IF r.raised = "" THEN "array" ELSE r.raised]
    /\ UNCHANGED <<scanVars, ul, rd, plugin>>

\* line 559: data = self._apply_slope_and_offset(data)
ApplySlopeAndOffset ==
    /\ px.status = "array"
    /\ px' = [px EXCEPT !.data = apply_slope_and_offset(px.info, px.raw),
                        !.status = "returned"]
    /\ UNCHANGED <<scanVars, ul, rd, plugin>>

RescaleNext ==
    \/ PixelDataNumpy
    \/ ApplySlopeAndOffset

InitRescale ==
    /\ PxInit
    /\ ScanIdle
    /\ ul = Idle
    /\ rd = Idle
    /\ plugin = Idle

SpecRescale == InitRescale /\ [][RescaleNext]_vars

\* the raw pixel bytes viewed in the declared scalar type, in the byte
\* order of the dataset, and reshaped
RawView ==
    LET dtype == DType(IF px.info.PixelRepresentation = 0 THEN "u" ELSE "i",
                       px.info.BitsAllocated)
        itemsize == px.info.BitsAllocated \div 8
    IN  [dtype |-> dtype, shape |-> px.info.shape,
         values |-> [i \in 1..Product(px.info.shape) |->
                        Decode(SubSeq(px.info.PixelData,
                                      (i - 1) * itemsize + 1, i * itemsize),
                               px.is_little_endian, dtype)]]

\* _pixel_data_numpy gives the raw view whatever the byte order of the host
PixelDataIsRawView ==
    px.status \in {"array", "returned"} => px.raw = RawView

\* the rescale tags present (one at least) and integral
IntegralRescale ==
    /\ px.info.RescaleSlope /= <<>> \/ px.info.RescaleIntercept /= <<>>
    /\ px.info.RescaleSlope /= <<>> => px.info.RescaleSlope[1] % 2 = 0
    /\ px.info.RescaleIntercept /= <<>> => px.info.RescaleIntercept[1] % 2 = 0

\* raw * s + o in unbounded integer arithmetic
Rescaled(v) ==
    LET s == IF px.info.RescaleSlope /= <<>>
             THEN px.info.RescaleSlope[1] \div 2 ELSE 1
        o == IF px.info.RescaleIntercept /= <<>>
             THEN px.info.RescaleIntercept[1] \div 2 ELSE 0
    IN  BAdd(BMul(v, s), Big(o))

RescaledValues == [i \in 1..Len(px.raw.values) |-> Rescaled(px.raw.values[i])]

\* the least of 8, 16, 32 bits that contains [lo, hi], signed if lo < 0 and
\* unsigned otherwise; <<>> when 32 bits do not suffice
PromotedType(lo, hi) ==
    LET signed == BLess(lo, Big(0))
        fits(w) == IF signed
                   THEN ~BLess(lo, BNeg(Pow2(w - 1))) /\ BLess(hi, Pow2(w - 1))
                   ELSE BLess(hi, Pow2(w))
        ws == {w \in {8, 16, 32} : fits(w)}
    IN  IF ws = {} THEN <<>>
        ELSE <<DType(IF signed THEN "i" ELSE "u",
                     CHOOSE w \in ws : \A v \in ws : w <= v)>>

\* the required range: the raw values and the rescaled ones
RangeOfRescale == Range(px.raw.values) \cup Range(RescaledValues)

\* the values of the returned array as integers, <<>> for a value that is
\* no integer
ReturnedIntegers ==
    [i \in 1..Len(px.data.values) |->
        IF px.data.dtype.kind /= "f" THEN px.data.values[i]
        ELSE IF px.data.values[i][2] % 2 = 0 THEN BHalf(px.data.values[i])
        ELSE <<>>]

\* C3: with integral slope and intercept the element type is the least of
\* 8/16/32 bits containing the required range, signed iff the range goes
\* below 0, and whenever 32 bits suffice the returned array is raw * s + o
\* in unbounded integer arithmetic.
C3_RescaleIsExact ==
    LET t == PromotedType(BMin(RangeOfRescale), BMax(RangeOfRescale))
    IN  (px.status = "returned" /\ IntegralRescale /\ t /= <<>>) =>
            /\ px.data.dtype = t[1]
            /\ px.data.values = RescaledValues

\* C4: with RescaleSlope = 1 and RescaleIntercept = 0 as the only rescale
\* tags, the returned array has the element width, the signedness and the
\* values of the raw view.
C4_IdentityRescaleKeepsRawView ==
    (/\ px.status = "returned"
     /\ px.info.RescaleSlope = <<2>>
     /\ px.info.RescaleIntercept = <<0>>) =>
        px.data = RawView

\* the values alone: no element of the returned array wraps around
RescaleValuesExact ==
    LET t == PromotedType(BMin(RangeOfRescale), BMax(RangeOfRescale))
    IN  (px.status = "returned" /\ IntegralRescale /\ t /= <<>>) =>
            ReturnedIntegers = RescaledValues

----------------------------------------------------------------------------
(* A reader on one file: SimpleDicomReader(file), then get_numpy_array.     *)

MaxCalls == 2

\* struct.pack('<I' or '>I', n)
PackI(little, n) ==
    LET le == <<n % 256, (n \div 256) % 256, (n \div W) % 256, n \div (256 * W)>>
    IN  IF little THEN le ELSE Reverse(le)

\* value padded to an even length
PadEven(value, pad) == IF Len(value) % 2 = 1 THEN Append(value, pad) ELSE value

\* a data element as a writer stores it: vr is the two characters of the VR
Element(implicit, little, group, element, vr, value) ==
    PackH(little, group) \o PackH(little, element)
        \o (IF implicit THEN PackI(little, Len(value))
            ELSE IF vr \in LongVRs THEN vr \o <<0, 0>> \o PackI(little, Len(value))
            ELSE vr \o PackH(little, Len(value)))
        \o value

\* a sequence of undefined length: its items, the delimiter, four zeros
UndefinedSequence(implicit, little, group, element, items) ==
    PackH(little, group) \o PackH(little, element)
        \o (IF implicit THEN <<>> ELSE <<83, 81, 0, 0>>)
        \o <<255, 255, 255, 255>>
        \o items \o BytesToFind(little) \o <<0, 0, 0, 0>>

\* the file meta information: group length and TransferSyntaxUID, always
\* explicit VR little endian
Meta(ts) ==
    LET uid == IF ts = <<>> THEN <<>>
               ELSE Element(FALSE, TRUE, 2, 16, <<85, 73>>, PadEven(ts[1], 0))
    IN  Element(FALSE, TRUE, 2, 0, <<85, 76>>, PackI(TRUE, Len(uid))) \o uid

\* the data set of an image, in the transfer syntax given
Body(input, implicit, little) ==
    LET US(element, v) ==
            Element(implicit, little, 40, element, <<85, 83>>, PackH(little, v))
        DS(element, text) ==
            Element(implicit, little, 40, element, <<68, 83>>, PadEven(text, 32))
    IN  Element(implicit, little, 8, 96, <<67, 83>>, <<67, 84>>)
        \o (IF input.variant = "sequence"
            THEN UndefinedSequence(implicit, little, 8, 4416, <<1, 2, 3, 4>>)
            ELSE <<>>)
        \o US(2, 1)
        \o US(16, 1)
        \o US(17, input.cols)
        \o (IF input.variant = "no spacing" THEN <<>>
            ELSE DS(48, <<49, 92, 49>>))
        \o (IF input.rescale THEN DS(82, <<48>>) \o DS(83, <<49>>) ELSE <<>>)
        \o US(256, input.bits)
        \o US(259, input.rep)
        \o Element(implicit, little, 32736, 16, <<79, 87>>, input.pixels)

\* data in stored blocks, the first of `first` bytes when first < Len(data)
Deflate(data, first) ==
    LET block(final, d) ==
            <<final>> \o PackH(TRUE, Len(d)) \o PackH(TRUE, W - 1 - Len(d)) \o d
    IN  IF first >= Len(data) THEN block(1, data)
        ELSE block(0, SubSeq(data, 1, first))
                 \o block(1, SubSeq(data, first + 1, Len(data)))

\* the bytes of the file
FileOf(input) ==
    LET ts == input.ts
        implicit == ts = <<ImplicitVRLittleEndian>>
        little == ts /= <<ExplicitVRBigEndian>>
        body == Body(input, implicit, little)
    IN  Repeat(128, <<input.preamble>>)
            \o (IF input.variant = "no magic" THEN <<68, 73, 67, 79>> ELSE DICM)
            \o Meta(ts)
            \o (IF input.variant = "meta only" THEN <<>>
                ELSE IF ts = <<DeflatedExplicitVRLittleEndian>>
                THEN Deflate(body, input.first)
                ELSE body)

\* '1.2.840.10008.1.2.4.50', JPEG baseline: not read by this reader
JPEGBaseline == ImplicitVRLittleEndian \o <<46, 52, 46, 53, 48>>

TransferSyntaxes ==
    {<<>>, <<ExplicitVRLittleEndian>>, <<ExplicitVRBigEndian>>,
     <<ImplicitVRLittleEndian>>, <<DeflatedExplicitVRLittleEndian>>,
     <<JPEGLossless>>, <<JPEGBaseline>>}

Variants == {"image", "no spacing", "sequence", "meta only", "no magic"}

PixelPatterns == {<<0>>, <<7>>, <<1, 128>>}

Inputs ==
    [isPath : BOOLEAN, sys : BOOLEAN, ts : TransferSyntaxes, preamble : {0, 7},
     variant : Variants, cols : {1, 2}, bits : {8, 16}, rep : {0, 1},
     rescale : BOOLEAN, first : {20, 1000},
     pixels : {Repeat(n, pat) : n \in {2, 4}, pat \in PixelPatterns}]

\* the files written as their tags say: cols pixels of bits bits; one image
\* stands for the files without a data set; only a deflated file is split
\* in blocks
WellFormed(input) ==
    /\ Len(input.pixels) = input.cols * (input.bits \div 8)
    /\ input.variant \in {"meta only", "no magic"} =>
           /\ input.cols = 1 /\ input.bits = 16 /\ input.rep = 0
           /\ ~input.rescale /\ input.pixels = <<0, 0>>
    /\ input.ts /= <<DeflatedExplicitVRLittleEndian>> => input.first = 1000

RdInit ==
    \E input \in Inputs :
        /\ WellFormed(input)
        /\ rd = [input |-> input,
                 r |-> SimpleDicomReaderInit(input.isPath, FileOf(input), input.sys)]

\* line 359 and lines 389-393
RdOpen ==
    /\ rd.r.status = "read"
    /\ rd' = [rd EXCEPT !.r = ReadPrefix(@)]
    /\ UNCHANGED <<scanVars, ul, px, plugin>>

\* line 395
RdHeader ==
    /\ rd.r.status = "header"
    /\ rd' = [rd EXCEPT !.r = read_header(@)]
    /\ UNCHANGED <<scanVars, ul, px, plugin>>

\* line 396, one round of the loop
RdElement ==
    /\ rd.r.status = "elements"
    /\ rd' = [rd EXCEPT !.r = read_data_element(@)]
    /\ UNCHANGED <<scanVars, ul, px, plugin>>

\* lines 397-401
RdFinish ==
    /\ rd.r.status = "shape"
    /\ rd' = [rd EXCEPT !.r = read_finish(@)]
    /\ UNCHANGED <<scanVars, ul, px, plugin>>

\* a call of get_numpy_array by the owner of the reader
RdGetNumpyArray ==
    /\ rd.r.status = "parsed"
    /\ rd.r.calls < MaxCalls
    /\ rd' = [rd EXCEPT !.r = get_numpy_array(@)]
    /\ UNCHANGED <<scanVars, ul, px, plugin>>

ReaderNext ==
    \/ RdOpen
    \/ RdHeader
    \/ RdElement
    \/ RdFinish
    \/ RdGetNumpyArray

InitReader ==
    /\ RdInit
    /\ ScanIdle
    /\ ul = Idle
    /\ px = Idle
    /\ plugin = Idle

SpecReader == InitReader /\ [][ReaderNext]_vars

\* the constructor as a whole
RECURSIVE Construct(_)
Construct(r) ==
    IF r.status = "read" THEN Construct(ReadPrefix(r))
    ELSE IF r.status = "header" THEN Construct(read_header(r))
    ELSE IF r.status = "elements" THEN Construct(read_data_element(r))
    ELSE IF r.status = "shape" THEN Construct(read_finish(r))
    ELSE r

SimpleDicomReader(isPath, disk, sys_is_little_endian) ==
    Construct(SimpleDicomReaderInit(isPath, disk, sys_is_little_endian))

\* what the caller has of a reader after parsing and get_numpy_array: the
\* exception or the shape and the array
Result(r) ==
    [status |-> r.status,
     shape |-> IF Has(r.info, "shape") THEN r.info["shape"].v ELSE <<>>,
     array |-> r.array]

\* parsing and the first get_numpy_array are over
RdDone ==
    /\ rd.r.status \notin {"read", "header", "elements", "shape"}
    /\ rd.r.status = "parsed" => rd.r.calls = 1

\* the same body stored un-deflated under 1.2.840.10008.1.2.1, read the
\* same way
Twin ==
    LET input == [rd.input EXCEPT !.ts = <<ExplicitVRLittleEndian>>]
        r == SimpleDicomReader(input.isPath, FileOf(input), input.sys)
    IN  IF r.status = "parsed" THEN get_numpy_array(r) ELSE r

\* C1: a deflated dataset, read from a path or from a stream, gives the
\* shape and the pixel array of the same body stored un-deflated.
C1_DeflatedEqualsStored ==
    (RdDone /\ rd.input.ts = <<DeflatedExplicitVRLittleEndian>>) =>
        Result(rd.r) = Result(Twin)

\* the same for a reader given a file object
DeflatedStreamEqualsStored ==
    (RdDone /\ rd.input.ts = <<DeflatedExplicitVRLittleEndian>> /\ ~rd.input.isPath) =>
        Result(rd.r) = Result(Twin)

\* the array of a file read with success is the rescaled raw view of the
\* pixels written, except for a deflated file read by name
ArrayOfPixelsWritten ==
    (/\ RdDone
     /\ rd.r.status = "parsed"
     /\ ~(rd.input.isPath /\ rd.input.ts = <<DeflatedExplicitVRLittleEndian>>)) =>
        LET info == [BitsAllocated |-> rd.input.bits,
                     PixelRepresentation |-> rd.input.rep,
                     PixelData |-> rd.input.pixels,
                     shape |-> <<1, rd.input.cols>>,
                     RescaleSlope |-> IF rd.input.rescale THEN <<2>> ELSE <<>>,
                     RescaleIntercept |-> IF rd.input.rescale THEN <<0>> ELSE <<>>]
            little == rd.input.ts /= <<ExplicitVRBigEndian>>
        IN  rd.r.array =
                <<apply_slope_and_offset(info,
                      pixel_data_numpy(info, little, rd.input.sys).data)>>

----------------------------------------------------------------------------
(* Arrays of whole datasets.  The pixels of a file are not looked into      *)
(* here: a 2-D frame is named by its file and its number in the file, and   *)
(* an array is its shape and its frames in C order.                         *)

Frame(name, k) == <<name, k>>

\* the number of 2-D frames of an array of the given shape
FramesOf(shape) == Product(SubSeq(shape, 1, Len(shape) - 2))

\* SimpleDicomReader.get_numpy_array of a dataset of the directory
DatasetArray(ds) ==
    [shape |-> ds.shape,
     frames |-> [k \in 1..FramesOf(ds.shape) |-> Frame(ds.filename, k)]]

\* vol[z] = arr for a vol[z] of the given shape: the frames assigned, arr
\* broadcast over the leading axes it lacks, or <<>> when numpy raises
\* ValueError (could not broadcast)
Broadcast(arr, shape) ==
    IF arr.shape = shape THEN <<arr.frames>>
    ELSE IF Len(arr.shape) < Len(shape)
            /\ arr.shape = SubSeq(shape, Len(shape) - Len(arr.shape) + 1, Len(shape))
    THEN <<Concat([k \in 1..(FramesOf(shape) \div FramesOf(arr.shape)) |->
                      arr.frames])>>
    ELSE <<>>

\* lines 822-831: the slices assigned to vol one after the other
VolumeFilled(serie, shape, slices) ==
    IF \E z \in 1..Len(slices) : slices[z] = <<>>
    THEN [raised |-> "ValueError", array |-> <<>>]
    ELSE [raised |-> "",
          array |-> <<[shape |-> shape,
                       frames |-> Concat([z \in 1..Len(slices) |-> slices[z][1]])]>>]

\* lines 817-836, the series holding two slices or more
VolumeOf(serie, shape) ==
    VolumeFilled(serie, shape,
                 [z \in 1..Len(serie.entries) |->
                     Broadcast(DatasetArray(serie.entries[z]), Tail(shape))])

\* DicomSeries.get_numpy_array
DicomSeries_get_numpy_array(serie) ==
    IF Len(serie.entries) = 0 THEN [raised |-> "ValueError", array |-> <<>>]
    ELSE IF Len(serie.entries) = 1
    THEN [raised |-> "", array |-> <<DatasetArray(serie.entries[1])>>]
    ELSE IF serie.info = <<>> THEN [raised |-> "KeyError", array |-> <<>>]
    ELSE VolumeOf(serie, serie.info[1].shape)

----------------------------------------------------------------------------
(* DicomFormat.Reader.  length(), get_data(index) and get_meta_data(index)  *)
(* of the host are its calls of _get_length, _get_data and _get_meta_data.  *)
(* The request names a directory or a file of it; fs is the directory as    *)
(* list_files enumerates it.  None is <<>>.                                 *)

EXPECT_IM == "i"

EXPECT_MIM == "I"

EXPECT_VOL == "v"

EXPECT_MVOL == "V"

\* what a call leaves: the reader, the exception raised ("" for none) and
\* the value returned
Returns(p, value) == [p |-> p, raised |-> "", value |-> <<value>>]

Raises(p, exc) == [p |-> p, raised |-> exc, value |-> <<>>]

\* seq[index] of Python: a negative index counts from the end
PyIndex(seq, index) ==
    IF index >= 0 /\ index < Len(seq) THEN <<seq[index + 1]>>
    ELSE IF index < 0 /\ -index <= Len(seq) THEN <<seq[Len(seq) + index + 1]>>
    ELSE <<>>

\* Reader.__init__ of the host, before _open
Reader(isdir, file, expect) ==
    [status |-> "new", isdir |-> isdir, file |-> file, expect |-> expect,
     info |-> <<>>, data |-> <<>>, series |-> <<>>, scans |-> 0, calls |-> 0,
     call |-> "", index |-> <<>>, raised |-> "", value |-> <<>>]

\* lines 75-85, arg the argument progress
OpenProgress(p, arg) ==
    IF arg \in {"indicator", "True", "False", "None"}
    THEN Returns([p EXCEPT !.status = "open"], <<>>)
    ELSE Raises([p EXCEPT !.status = "raised"], "ValueError")

\* lines 70-72 on the file f the request names
OpenFile(p, f, arg) ==
    IF f.kind = "notdicom" THEN Raises([p EXCEPT !.status = "raised"], "NotADicomFile")
    ELSE IF f.kind = "error" THEN Raises([p EXCEPT !.status = "raised"], "Exception")
    ELSE OpenProgress([p EXCEPT !.info = <<Dataset(f)>>,
                                !.data = <<DatasetArray(Dataset(f))>>], arg)

\* _open
Reader_open(p, fs, arg) ==
    IF p.isdir THEN OpenProgress(p, arg)
    ELSE OpenFile(p, fs[p.file], arg)

\* _close
Reader_close(p) ==
    [p EXCEPT !.status = "closed", !.info = <<>>, !.data = <<>>, !.series = <<>>]

\* line 96, s the outcome of process_directory
SeriesScanned(p, s) ==
    IF s.raised THEN Raises([p EXCEPT !.scans = @ + 1], "AttributeError")
    ELSE Returns([p EXCEPT !.scans = @ + 1, !.series = <<s.series>>], s.series)

\* the property that scans at every read
Reader_seriesUncached(p, fs) == SeriesScanned(p, process_directory(fs))

\* the property series
Reader_series(p, fs) ==
    IF p.series = <<>> THEN SeriesScanned(p, process_directory(fs))
    ELSE Returns(p, p.series[1])

\* lines 101-103, s the outcome of self.series
FirstOfSeries(s) ==
    IF s.raised /= "" THEN s
    ELSE IF s.value[1] = <<>> THEN Raises(s.p, "IndexError")
    ELSE Returns([s.p EXCEPT !.info = <<s.value[1][1].entries[1]>>,
                             !.data = <<DatasetArray(s.value[1][1].entries[1])>>],
                 <<>>)

\* lines 100-103, 131-134, 165-168
LoadData(p, fs) ==
    IF p.data /= <<>> THEN Returns(p, <<>>) ELSE FirstOfSeries(Reader_series(p, fs))

\* lines 105, 136, 170
nslices(data) == IF Len(data.shape) = 3 THEN data.shape[1] ELSE 1

\* sum([len(serie) for serie in series])
RECURSIVE SumOfLengths(_)
SumOfLengths(list) ==
    IF list = <<>> THEN 0
    ELSE Len(Head(list).entries) + SumOfLengths(Tail(list))

\* line 116, s the outcome of self.series
TotalLength(s) ==
    IF s.raised /= "" THEN s ELSE Returns(s.p, SumOfLengths(s.value[1]))

\* lines 123, 126
NumberOfSeries(s) ==
    IF s.raised /= "" THEN s ELSE Returns(s.p, Len(s.value[1]))

\* lines 105-128, the data loaded
LengthOf(p, fs) ==
    IF p.expect = EXPECT_IM THEN Returns(p, nslices(p.data[1]))
    ELSE IF p.expect = EXPECT_MIM
    THEN IF nslices(p.data[1]) > 1 THEN Returns(p, nslices(p.data[1]))
         ELSE TotalLength(Reader_series(p, fs))
    ELSE IF p.expect = EXPECT_VOL
    THEN IF nslices(p.data[1]) > 1 THEN Returns(p, 1)
         ELSE NumberOfSeries(Reader_series(p, fs))
    ELSE IF p.expect = EXPECT_MVOL THEN NumberOfSeries(Reader_series(p, fs))
    ELSE Raises(p, "ValueError")

LengthLoaded(l, fs) == IF l.raised /= "" THEN l ELSE LengthOf(l.p, fs)

\* _get_length
Reader_get_length(p, fs) == LengthLoaded(LoadData(p, fs), fs)

\* self._data[index] of a 3-D array
SliceOfData(data, index) ==
    IF PyIndex(data.frames, index) = <<>> THEN <<>>
    ELSE <<[shape |-> Tail(data.shape), frames |-> PyIndex(data.frames, index)]>>

\* line 141, 149
DataSlice(p, index) ==
    IF SliceOfData(p.data[1], index) = <<>> THEN Raises(p, "IndexError")
    ELSE Returns(p, <<SliceOfData(p.data[1], index)[1], p.info[1]>>)

\* for serie in self.series: L.extend([dcm for dcm in serie])
Flattened(list) == Concat([k \in 1..Len(list) |-> list[k].entries])

\* line 154, d the L[index]
DataOfDataset(p, d) ==
    IF d = <<>> THEN Raises(p, "IndexError")
    ELSE Returns(p, <<DatasetArray(d[1]), d[1]>>)

\* lines 151-154, s the outcome of self.series
DataOfFlattened(s, index) ==
    IF s.raised /= "" THEN s
    ELSE DataOfDataset(s.p, PyIndex(Flattened(s.value[1]), index))

\* line 160, a the outcome of get_numpy_array of the series
DataOfVolume(p, serie, a) ==
    IF a.raised /= "" THEN Raises(p, a.raised)
    ELSE Returns(p, <<a.array[1], IF serie.info = <<>> THEN <<>> ELSE serie.info[1]>>)

DataOfSerie(p, serie) ==
    IF serie = <<>> THEN Raises(p, "IndexError")
    ELSE DataOfVolume(p, serie[1], DicomSeries_get_numpy_array(serie[1]))

\* line 160, s the outcome of self.series
DataOfSeries(s, index) ==
    IF s.raised /= "" THEN s
    ELSE DataOfSerie(s.p, PyIndex(s.value[1], index))

\* the branch of EXPECT_IM that returns the data at every index
DataOfImageUnchecked(p, index) ==
    IF nslices(p.data[1]) > 1 THEN DataSlice(p, index)
    ELSE Returns(p, <<p.data[1], p.info[1]>>)

\* lines 138-145
DataOfImage(p, index) ==
    IF nslices(p.data[1]) > 1 THEN DataSlice(p, index)
    ELSE IF index = 0 THEN Returns(p, <<p.data[1], p.info[1]>>)
    ELSE Raises(p, "IndexError")

\* lines 138-162, the data loaded
DataOf(p, fs, index) ==
    IF p.expect = EXPECT_IM THEN DataOfImage(p, index)
    ELSE IF p.expect = EXPECT_MIM
    THEN IF index = 0 /\ nslices(p.data[1]) > 1 THEN DataSlice(p, index)
         ELSE DataOfFlattened(Reader_series(p, fs), index)
    ELSE IF p.expect \in {EXPECT_VOL, EXPECT_MVOL}
    THEN IF index = 0 /\ nslices(p.data[1]) > 1
         THEN Returns(p, <<p.data[1], p.info[1]>>)
         ELSE DataOfSeries(Reader_series(p, fs), index)
    ELSE Raises(p, "ValueError")

DataLoaded(l, fs, index) == IF l.raised /= "" THEN l ELSE DataOf(l.p, fs, index)

\* _get_data
Reader_get_data(p, fs, index) == DataLoaded(LoadData(p, fs), fs, index)

\* line 186
InfoOfDataset(p, d) ==
    IF d = <<>> THEN Raises(p, "IndexError") ELSE Returns(p, d[1])

InfoOfFlattened(s, index) ==
    IF s.raised /= "" THEN s
    ELSE InfoOfDataset(s.p, PyIndex(Flattened(s.value[1]), index))

\* line 192
InfoOfSerie(p, serie) ==
    IF serie = <<>> THEN Raises(p, "IndexError")
    ELSE Returns(p, IF serie[1].info = <<>> THEN <<>> ELSE serie[1].info[1])

InfoOfSeries(s, index) ==
    IF s.raised /= "" THEN s
    ELSE InfoOfSerie(s.p, PyIndex(s.value[1], index))

\* lines 173-194, the data loaded; index is <<>> for None
MetaDataOf(p, fs, index) ==
    IF index = <<>> THEN Returns(p, p.info[1])
    ELSE IF p.expect = EXPECT_IM THEN Returns(p, p.info[1])
    ELSE IF p.expect = EXPECT_MIM
    THEN IF index[1] = 0 /\ nslices(p.data[1]) > 1 THEN Returns(p, p.info[1])
         ELSE InfoOfFlattened(Reader_series(p, fs), index[1])
    ELSE IF p.expect \in {EXPECT_VOL, EXPECT_MVOL}
    THEN IF index[1] = 0 /\ nslices(p.data[1]) > 1 THEN Returns(p, p.info[1])
         ELSE InfoOfSeries(Reader_series(p, fs), index[1])
    ELSE Raises(p, "ValueError")

MetaDataLoaded(l, fs, index) ==
    IF l.raised /= "" THEN l ELSE MetaDataOf(l.p, fs, index)

\* _get_meta_data
Reader_get_meta_data(p, fs, index) == MetaDataLoaded(LoadData(p, fs), fs, index)

----------------------------------------------------------------------------
(* A reader of the format on a request: _open, then calls of the host until *)
(* _close.                                                                  *)

\* the calls made on an open reader
MaxRequests == 3

\* the indexes asked for: -1..MaxIndex
MaxIndex == 3

\* a file of n frames
MultiFrame(name, suid, inst, z, n) ==
    File(name, FALSE, "dicom", <<suid>>, <<inst>>, <<z>>, 2, 1, <<n>>)

NotDicom(name) == File(name, FALSE, "notdicom", <<>>, <<>>, <<>>, 2, 1, <<>>)

PluginDirectories ==
    {\* a file of three frames and the two slices of a series sorted before it
     <<Slice(1, 1, 1, 0), MultiFrame(2, 2, 1, 0, 3), Slice(3, 1, 2, 1)>>,
     \* a file of two frames alone, a slice alone
     <<MultiFrame(1, 1, 1, 0, 2)>>,
     <<Slice(1, 1, 1, 0)>>,
     \* a series that splits and a series of one slice
     FourSlices \o <<Slice(5, 2, 1, 0)>>,
     \* a series whose slices disagree on Rows, a series of one slice, a file
     \* that is no DICOM file and one that fails to parse
     <<File(1, FALSE, "dicom", <<1>>, <<1>>, <<0>>, 2, 1, <<>>),
       File(2, FALSE, "dicom", <<1>>, <<2>>, <<1>>, 3, 1, <<>>),
       Slice(3, 2, 1, 0), NotDicom(4),
       File(5, FALSE, "error", <<>>, <<>>, <<>>, 2, 1, <<>>)>>,
     \* a slice without InstanceNumber
     <<Slice(1, 1, 1, 0),
       File(2, FALSE, "dicom", <<1>>, <<>>, <<1>>, 2, 1, <<>>)>>,
     \* no DICOM file
     <<NotDicom(1)>>,
     \* series of a file of two frames and a slice, either way round
     <<MultiFrame(1, 1, 1, 0, 2), Slice(2, 1, 2, 1)>>,
     <<Slice(1, 1, 1, 0), MultiFrame(2, 1, 2, 1, 2)>>}

Expectations == {EXPECT_IM, EXPECT_MIM, EXPECT_VOL, EXPECT_MVOL, "?"}

ProgressArguments == {"True", "indicator", "?"}

PluginInit ==
    \E fs \in PluginDirectories, expect \in Expectations :
        /\ files = fs
        /\ \/ plugin = Reader(TRUE, 0, expect)
           \/ \E k \in 1..Len(fs) : plugin = Reader(FALSE, k, expect)

\* the reader after a call and what the call left
Called(o, call, index) ==
    [o.p EXCEPT !.call = call, !.index = index, !.raised = o.raised,
                !.value = o.value, !.calls = @ + 1]

PluginOpen ==
    /\ plugin.status = "new"
    /\ \E progressArg \in ProgressArguments :
           plugin' = Called(Reader_open(plugin, files, progressArg), "open", <<>>)
    /\ UNCHANGED <<scanVars, ul, px, rd>>

PluginGetLength ==
    /\ plugin.status = "open"
    /\ plugin.calls <= MaxRequests
    /\ plugin' = Called(Reader_get_length(plugin, files), "get_length", <<>>)
    /\ UNCHANGED <<scanVars, ul, px, rd>>

PluginGetData ==
    /\ plugin.status = "open"
    /\ plugin.calls <= MaxRequests
    /\ \E index \in -1..MaxIndex :
           plugin' = Called(Reader_get_data(plugin, files, index), "get_data",
                            <<index>>)
    /\ UNCHANGED <<scanVars, ul, px, rd>>

PluginGetMetaData ==
    /\ plugin.status = "open"
    /\ plugin.calls <= MaxRequests
    /\ \E index \in {<<>>} \cup {<<i>> : i \in -1..MaxIndex} :
           plugin' = Called(Reader_get_meta_data(plugin, files, index),
                            "get_meta_data", index)
    /\ UNCHANGED <<scanVars, ul, px, rd>>

PluginClose ==
    /\ plugin.status = "open"
    /\ plugin' = [Reader_close(plugin) EXCEPT !.call = "close", !.index = <<>>,
                                              !.raised = "", !.value = <<>>]
    /\ UNCHANGED <<scanVars, ul, px, rd>>

PluginNext ==
    \/ PluginOpen
    \/ PluginGetLength
    \/ PluginGetData
    \/ PluginGetMetaData
    \/ PluginClose

InitPlugin ==
    /\ PluginInit
    /\ fidx = 0
    /\ series = <<>>
    /\ todo = <<>>
    /\ fin = 0
    /\ series_ = <<>>
    /\ progress = <<>>
    /\ nextOid = 0
    /\ pc = "idle"
    /\ ul = Idle
    /\ px = Idle
    /\ rd = Idle

SpecPlugin == InitPlugin /\ [][PluginNext]_vars

----------------------------------------------------------------------------
(* Properties of the reader of the format.                                  *)

\* what process_directory returns for the directory of the request
Scan == process_directory(files)

\* the last call was call on the open reader
After(call) == plugin.status = "open" /\ plugin.call = call

\* the last call was get_data(i) with 0 <= i < n
AfterGetData(n) ==
    After("get_data") /\ plugin.index[1] >= 0 /\ plugin.index[1] < n

\* slice i of the loaded volume
LoadedSlice(i) ==
    [shape |-> Tail(plugin.data[1].shape), frames |-> <<plugin.data[1].frames[i + 1]>>]

\* C11: with expect = MULTI_IMAGE, a loaded file of nslices > 1 slices has
\* length nslices and get_data(i) is slice i of the loaded volume for every
\* 0 <= i < nslices; a loaded file of one slice has the length of all series
\* together and get_data(i) is dataset i of the series flattened in list
\* order.
C11_MultiImage ==
    (plugin.status = "open" /\ plugin.expect = EXPECT_MIM /\ plugin.data /= <<>>) =>
        /\ (After("get_length") /\ nslices(plugin.data[1]) > 1) =>
               (plugin.raised = "" /\ plugin.value = <<nslices(plugin.data[1])>>)
        /\ (AfterGetData(nslices(plugin.data[1])) /\ nslices(plugin.data[1]) > 1) =>
               /\ plugin.raised = ""
               /\ plugin.value[1][1] = LoadedSlice(plugin.index[1])
        /\ (After("get_length") /\ nslices(plugin.data[1]) = 1 /\ ~Scan.raised) =>
               (plugin.raised = "" /\ plugin.value = <<Len(Flattened(Scan.series))>>)
        /\ (/\ AfterGetData(Len(Flattened(Scan.series)))
            /\ nslices(plugin.data[1]) = 1
            /\ ~Scan.raised) =>
               /\ plugin.raised = ""
               /\ plugin.value[1] =
                      <<DatasetArray(Flattened(Scan.series)[plugin.index[1] + 1]),
                        Flattened(Scan.series)[plugin.index[1] + 1]>>

\* the same with get_data of a file of nslices > 1 asked for slice 0 only
MultiImageFirstSlice ==
    (plugin.status = "open" /\ plugin.expect = EXPECT_MIM /\ plugin.data /= <<>>) =>
        /\ (After("get_length") /\ nslices(plugin.data[1]) > 1) =>
               (plugin.raised = "" /\ plugin.value = <<nslices(plugin.data[1])>>)
        /\ (AfterGetData(1) /\ nslices(plugin.data[1]) > 1) =>
               /\ plugin.raised = ""
               /\ plugin.value[1][1] = LoadedSlice(0)
        /\ (After("get_length") /\ nslices(plugin.data[1]) = 1 /\ ~Scan.raised) =>
               (plugin.raised = "" /\ plugin.value = <<Len(Flattened(Scan.series))>>)
        /\ (/\ AfterGetData(Len(Flattened(Scan.series)))
            /\ nslices(plugin.data[1]) = 1
            /\ ~Scan.raised) =>
               /\ plugin.raised = ""
               /\ plugin.value[1] =
                      <<DatasetArray(Flattened(Scan.series)[plugin.index[1] + 1]),
                        Flattened(Scan.series)[plugin.index[1] + 1]>>

\* the volume and the info of a series, as get_data returns them
SeriesVolume(serie) ==
    <<<<DicomSeries_get_numpy_array(serie).array[1],
        IF serie.info = <<>> THEN <<>> ELSE serie.info[1]>>>>

\* C12: with expect = MULTI_VOLUME the length is the number of series and
\* get_data(i) is series i of the list as a volume with that series' info,
\* for every 0 <= i < length, whatever the opened file holds.
C12_MultiVolume ==
    (plugin.status = "open" /\ plugin.expect = EXPECT_MVOL /\ ~Scan.raised) =>
        /\ (After("get_length") /\ (plugin.isdir => Scan.series /= <<>>)) =>
               (plugin.raised = "" /\ plugin.value = <<Len(Scan.series)>>)
        /\ AfterGetData(Len(Scan.series)) =>
               IF DicomSeries_get_numpy_array(Scan.series[plugin.index[1] + 1]).raised /= ""
               THEN plugin.raised =
                        DicomSeries_get_numpy_array(Scan.series[plugin.index[1] + 1]).raised
               ELSE /\ plugin.raised = ""
                    /\ plugin.value = SeriesVolume(Scan.series[plugin.index[1] + 1])

\* the same for the indexes at which the loaded file is not returned
MultiVolumeOfSeries ==
    (plugin.status = "open" /\ plugin.expect = EXPECT_MVOL /\ ~Scan.raised) =>
        /\ (After("get_length") /\ (plugin.isdir => Scan.series /= <<>>)) =>
               (plugin.raised = "" /\ plugin.value = <<Len(Scan.series)>>)
        /\ (/\ AfterGetData(Len(Scan.series))
            /\ ~(plugin.index[1] = 0 /\ nslices(plugin.data[1]) > 1)) =>
               IF DicomSeries_get_numpy_array(Scan.series[plugin.index[1] + 1]).raised /= ""
               THEN plugin.raised =
                        DicomSeries_get_numpy_array(Scan.series[plugin.index[1] + 1]).raised
               ELSE /\ plugin.raised = ""
                    /\ plugin.value = SeriesVolume(Scan.series[plugin.index[1] + 1])

\* C13: with expect = IMAGE on an opened file of one slice, the length is 1,
\* get_data(0) is the 2-D frame with the file's info, get_data(i) raises
\* IndexError for every other i, and no call scans the directory.
C13_SingleImage ==
    (/\ plugin.status = "open"
     /\ plugin.expect = EXPECT_IM
     /\ ~plugin.isdir
     /\ nslices(plugin.data[1]) = 1) =>
        /\ plugin.scans = 0
        /\ After("get_length") => (plugin.raised = "" /\ plugin.value = <<1>>)
        /\ (After("get_data") /\ plugin.index = <<0>>) =>
               /\ plugin.raised = ""
               /\ plugin.value =
                      <<<<[shape |-> <<files[plugin.file].rows, files[plugin.file].cols>>,
                           frames |-> <<Frame(files[plugin.file].name, 1)>>],
                          Dataset(files[plugin.file])>>>>
        /\ (After("get_data") /\ plugin.index /= <<0>>) =>
               (plugin.raised = "IndexError" /\ plugin.value = <<>>)

\* get_data(0), get_data of another index and length have all been asked of
\* a file of one slice opened as an image
C13_Witness ==
    /\ plugin.status = "open"
    /\ plugin.expect = EXPECT_IM
    /\ ~plugin.isdir
    /\ nslices(plugin.data[1]) = 1
    /\ Len(files) > 1
    /\ plugin.call = "get_data"
    /\ plugin.index = <<1>>
    /\ plugin.raised = "IndexError"
    /\ plugin.calls > 2

\* C14: open never scans the directory; the first read of the series runs
\* process_directory; once a scan has returned its list, no later call
\* before close scans again and every call sees that list.
C14_SeriesLazyAndCached ==
    [][/\ plugin'.call = "open" => plugin'.scans = 0
       /\ (/\ plugin.status = "open"
           /\ plugin.series = <<>>
           /\ plugin.expect = EXPECT_MVOL
           /\ plugin'.call = "get_length") =>
              /\ plugin'.scans = plugin.scans + 1
              /\ plugin'.series /= <<>> => plugin'.series = <<Scan.series>>
       /\ (plugin.status = "open" /\ plugin.series = <<>> /\ plugin'.series /= <<>>) =>
              (plugin'.scans = plugin.scans + 1 /\ plugin'.series = <<Scan.series>>)
       /\ (plugin.status = "open" /\ plugin.series /= <<>> /\ plugin'.status = "open") =>
              (plugin'.scans = plugin.scans /\ plugin'.series = plugin.series)]_vars

\* three calls have read the series of a directory and one scan was run
C14_Witness ==
    /\ plugin.status = "open"
    /\ plugin.isdir
    /\ plugin.expect = EXPECT_MVOL
    /\ plugin.calls > 3
    /\ plugin.scans = 1
    /\ plugin.series /= <<>>
    /\ plugin.call = "get_data"
    /\ plugin.raised = ""

----------------------------------------------------------------------------
(* A file that ends with its meta header                                    *)

\* the constructor is over, with a reader or with an exception
Constructed == rd.r.status \notin {"read", "header", "elements", "shape"}

MetaOnly == rd.input.variant = "meta only"

\* C15: a file of the preamble, DICM and a group-0x0002 meta header only is
\* parsed with success, its dataset has no shape entry, and get_numpy_array
\* on it fails with the no-pixel-data error (TypeError).
C15_MetaOnlyParses ==
    (MetaOnly /\ Constructed) =>
        /\ rd.r.status \in {"parsed", "TypeError"}
        /\ ~Has(rd.r.info, "shape")
        /\ rd.r.calls > 0 => rd.r.status = "TypeError"

\* C15 as the code has it: the constructor fails on such a file with the
\* RuntimeError of _read_header for the end of the file, before anything is
\* stored in the dataset: no reader results, so there is no shape entry and
\* no call of get_numpy_array.
C15_MetaOnlyRejected ==
    (MetaOnly /\ rd.r.status \notin {"read", "header"}) =>
        /\ rd.r.status = "RuntimeError"
        /\ rd.r.info = <<>>
        /\ rd.r.calls = 0 /\ rd.r.array = <<>>

C15_Witness ==
    /\ MetaOnly
    /\ rd.input.ts = <<ExplicitVRLittleEndian>>
    /\ rd.r.status = "RuntimeError"
    /\ rd.r.file[1].pos = Len(rd.r.disk)

----------------------------------------------------------------------------
(* Series whose slices disagree on (Rows, Columns)                          *)

\* the series object oid is in the list returned
Returned(oid) == \E j \in 1..Len(series_) : series_[j].oid = oid

\* the series as process_directory finalizes them
Finalized == pc = "done"

\* C16: a series of two or more datasets that disagree on (Rows, Columns)
\* fails to finalize, is absent from the list returned, and its failure is
\* written to the progress sink before the scan finishes; the other series
\* are unaffected.
C16_MismatchLogged ==
    Finalized =>
        \A i \in 1..Len(series) :
            IF Disagree(series[i].entries)
            THEN /\ DicomSeries_finish(series[i]).raised
                 /\ ~Returned(series[i].oid)
                 /\ \E k \in 1..Len(progress) : progress[k] = DimensionsMessage
            ELSE AllHaveZ(series[i].entries) => Returned(series[i].oid)

\* C16 as the code has it: the series fails to finalize and is absent from
\* the list returned, but nothing is written for the failure; the other
\* series are returned.
C16_MismatchDroppedSilently ==
    Finalized =>
        /\ \A i \in 1..Len(series) :
               IF Disagree(series[i].entries)
               THEN /\ DicomSeries_finish(series[i]).raised
                    /\ ~Returned(series[i].oid)
               ELSE AllHaveZ(series[i].entries) => Returned(series[i].oid)
        /\ \A k \in 1..Len(progress) : progress[k] /= DimensionsMessage

C16_Witness ==
    /\ Finalized
    /\ \E i \in 1..Len(series) : Disagree(series[i].entries)
    /\ \E i \in 1..Len(series) :
           ~Disagree(series[i].entries) /\ Returned(series[i].oid)

----------------------------------------------------------------------------
(* The names of MINIDICT.  A file holds the meta header and one element of  *)
(* the data set: the element of an item of the dict display, with the VR    *)
(* the item gives it.  The file is whole, or its last bytes are missing.    *)

\* the most bytes missing: the length of the element
MaxCut == 10

\* the two characters of a VR
VRBytes(vr) ==
    CASE vr = "OB" -> <<79, 66>> [] vr = "DA" -> <<68, 65>>
      [] vr = "TM" -> <<84, 77>> [] vr = "CS" -> <<67, 83>>
      [] vr = "LO" -> <<76, 79>> [] vr = "UI" -> <<85, 73>>
      [] vr = "IS" -> <<73, 83>> [] vr = "PN" -> <<80, 78>>
      [] vr = "AS" -> <<65, 83>> [] vr = "DS" -> <<68, 83>>
      [] vr = "US" -> <<85, 83>>

\* b'12' and b'CT'
ElementValues == {<<49, 50>>, <<67, 84>>}

DictInputs ==
    [isPath : BOOLEAN, sys : {TRUE},
     ts : {<<>>, <<ExplicitVRLittleEndian>>, <<ExplicitVRBigEndian>>,
           <<ImplicitVRLittleEndian>>},
     item : 1..Len(MINIDICT_items), value : ElementValues, cut : 0..MaxCut]

\* the element of the data set
DictElement(input) ==
    Element(input.ts = <<ImplicitVRLittleEndian>>,
            input.ts /= <<ExplicitVRBigEndian>>,
            MINIDICT_items[input.item][1], MINIDICT_items[input.item][2],
            VRBytes(MINIDICT_items[input.item][4]), input.value)

\* the bytes of the file when whole
DictWholeFile(input) ==
    Repeat(128, <<0>>) \o DICM \o Meta(input.ts) \o DictElement(input)

\* the bytes of the file
DictFileOf(input) ==
    SubSeq(DictWholeFile(input), 1, Len(DictWholeFile(input)) - input.cut)

DictInit ==
    \E input \in DictInputs :
        rd = [input |-> input,
              r |-> SimpleDicomReaderInit(input.isPath, DictFileOf(input),
                                          input.sys)]

DictNext ==
    \/ RdOpen
    \/ RdHeader
    \/ RdElement
    \/ RdFinish

InitDict ==
    /\ DictInit
    /\ ScanIdle
    /\ ul = Idle
    /\ px = Idle
    /\ plugin = Idle

SpecDict == InitDict /\ [][DictNext]_vars

\* the body scan is over
Scanned == rd.r.status \notin {"read", "header", "elements"}

\* the body scan of a whole file is over
ScannedWhole == Scanned /\ rd.input.cut = 0

\* what the converter of vr makes of the value the element decoder returns
\* for the element of the file
Recorded(item, vr) ==
    Convert(vr,
            IF item[3] = "PixelData" THEN DeferredLoading ELSE rd.input.value,
            rd.r.is_little_endian).value

\* the keys that MINIDICT maps to name
KeysOf(name) ==
    {<<MINIDICT_items[i][1], MINIDICT_items[i][2]>> : i \in
        {j \in 1..Len(MINIDICT_items) :
            MINIDICT_get(MINIDICT_items[j][1], MINIDICT_items[j][2])
                = SubSeq(MINIDICT_items[j], 3, 4)
            /\ MINIDICT_items[j][3] = name}}

\* C17: every name listed for MINIDICT has exactly one tag mapped to it, and
\* an element of the data set carrying that tag is recorded under that name
\* with the converter of that name's VR.
C17_EveryNameRecorded ==
    LET item == MINIDICT_items[rd.input.item]
    IN  ScannedWhole =>
            /\ KeysOf(item[3]) = {<<item[1], item[2]>>}
            /\ Has(rd.r.info, item[3])
            /\ rd.r.info[item[3]] = Recorded(item, item[4])

\* an element is recorded under the name, and with the VR converter, of the
\* last item listed for its tag
LastNameRecorded ==
    LET item == MINIDICT_items[rd.input.item]
        last == MINIDICT_get(item[1], item[2])
    IN  ScannedWhole =>
            /\ Has(rd.r.info, last[1])
            /\ rd.r.info[last[1]] = Recorded(item, last[2])
            /\ DOMAIN rd.r.info = {"TransferSyntaxUID", last[1]}

----------------------------------------------------------------------------
(* What the scan does with files it can not use                             *)

\* the files the ingest loop has been through that made SimpleDicomReader
\* raise something else than NotADicomFile
FailedToParse ==
    {i \in 1..(fidx - 1) : ~files[i].dicomdir /\ files[i].kind = "error"}

\* every one of them has been reported by a write, and none is in a series
ErrorsWritten ==
    Cardinality({k \in 1..Len(progress) : progress[k] = "str(why)"})
        = Cardinality(FailedToParse)

\* the slices of the series are datasets that carry a SeriesInstanceUID
OnlyDatasetsWithSuid ==
    \A i \in 1..Len(series) : \A k \in 1..Len(series[i].entries) :
        LET f == files[Pos(series[i].entries[k].filename)]
        IN  ~f.dicomdir /\ f.kind = "dicom" /\ f.suid = <<series[i].suid>>

\* C18: process_directory never raises, whatever the files contain: a file
\* that fails to parse is reported by a write and skipped, a file without
\* SeriesInstanceUID is skipped, and a dataset of a series that lacks
\* InstanceNumber, or ImagePositionPatient on a later slice, does not make
\* the scan raise.
C18_ScanAlwaysReturns ==
    /\ pc /= "raised"
    /\ ErrorsWritten
    /\ OnlyDatasetsWithSuid

\* the files that can not be read, and those without SeriesInstanceUID, are
\* skipped as C18 has it
ScanSkipsFiles == ErrorsWritten /\ OnlyDatasetsWithSuid

\* the scan raises only out of splitSerieIfRequired, on a series with a
\* dataset without InstanceNumber or, its first slice having a position,
\* with a later slice without one
ScanRaisesInSplit ==
    pc = "raised" =>
        \E i \in 1..Len(series) :
            \/ SortRaises(series[i].entries)
            \/ /\ series[i].entries[1].z /= <<>>
               /\ ~AllHaveZ(series[i].entries)

----------------------------------------------------------------------------
(* Elements that the file holds in part                                     *)

\* the file ends in the element of the data set
Truncated == rd.input.cut \in 1..Len(DictElement(rd.input))

\* the element is PixelData, whose value the decoder skips (lines 420-424)
Deferred == MINIDICT_items[rd.input.item][3] = "PixelData"

\* C19: when the file holds fewer bytes than a read of the element decoder
\* asks for, the read of the value included, the decoder fails with the end
\* of the stream: the body scan records nothing from an element that the
\* file holds in part.
C19_NothingFromTruncatedElement ==
    (Scanned /\ Truncated /\ ~Deferred) =>
        DOMAIN rd.r.info \subseteq {"TransferSyntaxUID"}

\* the same for an element cut in its tag, VR or length
NothingFromTruncatedHeader ==
    (Scanned /\ Truncated /\ rd.input.cut > Len(rd.input.value)) =>
        DOMAIN rd.r.info \subseteq {"TransferSyntaxUID"}

----------------------------------------------------------------------------
(* The file a reader opens by name                                          *)

\* the constructor of a reader given a file name is over
ConstructedFromPath == Constructed /\ rd.input.isPath /\ rd.r.calls = 0

\* C20: a reader constructed from a file name has closed the file it opened
\* when construction ends, with success or with an error.
C20_HandleClosed == ConstructedFromPath => rd.r.handle = "closed"

\* after a metadata pass that succeeds the file is closed, unless it is the
\* file of a deflated dataset, which _inflate has replaced by then
HandleClosedAfterSuccess ==
    (ConstructedFromPath /\ rd.r.status = "parsed") =>
        IF rd.input.ts = <<DeflatedExplicitVRLittleEndian>>
        THEN rd.r.handle = "dropped"
        ELSE rd.r.handle = "closed"

\* on the error paths nothing closes the file
HandleNotClosedAfterError ==
    (ConstructedFromPath /\ rd.r.status /= "parsed") =>
        rd.r.handle \in {"open", "dropped"}

----------------------------------------------------------------------------
(* get_numpy_array called again                                             *)

\* a step that is a call of get_numpy_array
ArrayCall == rd.r.status = "parsed" /\ rd'.r.calls = rd.r.calls + 1

\* the entries of info but PixelData
OtherEntries(info) == [name \in DOMAIN info \ {"PixelData"} |-> info[name]]

\* C22: a call of get_numpy_array that returns leaves the placeholder in
\* PixelData and the pixel descriptor as it was; a later call returns an
\* array equal to the one before; no call changes another entry of info.
C22_Repeatable ==
    [][ArrayCall =>
         /\ OtherEntries(rd'.r.info) = OtherEntries(rd.r.info)
         /\ rd'.r.pixel_data_loc = rd.r.pixel_data_loc
         /\ rd'.r.status = "parsed" =>
                /\ rd'.r.info["PixelData"] = BytesVal(DataConverted)
                /\ Len(DataConverted) < 100
                /\ rd'.r.pixel_data_loc /= <<>>
         /\ rd.r.calls > 0 =>
                /\ rd'.r.status = "parsed"
                /\ rd'.r.array = rd.r.array]_vars

\* a second call has returned the array of a rescaled image of two pixels
C22_Witness ==
    /\ rd.r.status = "parsed"
    /\ rd.r.calls = 2
    /\ rd.input.rescale
    /\ rd.r.array /= <<>>
    /\ Len(rd.r.array[1].values) = 2

----------------------------------------------------------------------------
(* The volume of a series, value by value: DicomSeries.get_numpy_array,     *)
(* lines 817-836.  The slices are images of one pixel with the rescale tags *)
(* of the series, integral, so that every array is an integer array.        *)

MaxSlices == 2

VolumeBytes == {0, 1, 255}

\* twice the RescaleSlope: 1, -1, 16
VolumeSlopes2 == {2, -2, 32}

\* self[z].get_numpy_array() of a slice whose tags are info
EntryArray(info) ==
    apply_slope_and_offset(info, pixel_data_numpy(info, TRUE, TRUE).data)

\* np.zeros(shape, dtype=dtype), a row of values for every z
Zeros(shape, dtype) ==
    [dtype |-> dtype, shape |-> shape,
     values |-> [z \in 1..shape[1] |->
                    [i \in 1..Product(Tail(shape)) |-> Big(0)]]]

\* vol[z] = arr: the values of arr converted to the element type of vol
AssignSlice(vol, z, arr) ==
    [vol EXCEPT !.values[z] = AsType(arr, vol.dtype).values]

VolInit ==
    \E bits \in {8, 16}, rep \in {0, 1}, n \in 2..MaxSlices,
       slope \in Opt(VolumeSlopes2), intercept \in Opt(Intercepts2) :
        \E pixels \in [1..n -> [1..(bits \div 8) -> VolumeBytes]] :
            px = [status |-> "series",
                  entries |-> [z \in 1..n |->
                      [BitsAllocated |-> bits, PixelRepresentation |-> rep,
                       PixelData |-> pixels[z], shape |-> <<1, 1>>,
                       RescaleSlope |-> slope, RescaleIntercept |-> intercept]],
                  shape |-> <<n, 1, 1>>,
                  vol |-> <<>>, z |-> 0]

\* lines 822-824: the first slice gives the element type of the volume
VolAllocate ==
    /\ px.status = "series"
    /\ px' = [px EXCEPT
                 !.vol = <<AssignSlice(Zeros(px.shape,
                                             EntryArray(px.entries[1]).dtype),
                                       1, EntryArray(px.entries[1]))>>,
                 !.z = 1, !.status = "fill"]
    /\ UNCHANGED <<scanVars, ul, rd, plugin>>

\* lines 828-830: one round of the loop
VolFill ==
    /\ px.status = "fill"
    /\ px.z < Len(px.entries)
    /\ px' = [px EXCEPT
                 !.vol = <<AssignSlice(@[1], px.z + 1,
                                       EntryArray(px.entries[px.z + 1]))>>,
                 !.z = @ + 1]
    /\ UNCHANGED <<scanVars, ul, rd, plugin>>

\* lines 831-836
VolReturn ==
    /\ px.status = "fill"
    /\ px.z = Len(px.entries)
    /\ px' = [px EXCEPT !.status = "returned"]
    /\ UNCHANGED <<scanVars, ul, rd, plugin>>

VolumeNext ==
    \/ VolAllocate
    \/ VolFill
    \/ VolReturn

InitVolume ==
    /\ VolInit
    /\ ScanIdle
    /\ ul = Idle
    /\ rd = Idle
    /\ plugin = Idle

SpecVolume == InitVolume /\ [][VolumeNext]_vars

\* C21: for every z the values of vol[z] are the values of the array that
\* slice z's own get_numpy_array returns, also when the slices differ in
\* element type.
C21_VolumeHoldsSliceValues ==
    px.status = "returned" =>
        \A z \in 1..Len(px.entries) :
            px.vol[1].values[z] = EntryArray(px.entries[z]).values

\* the same for the slices whose array has the element type of the first
VolumeHoldsValuesOfSameType ==
    px.status = "returned" =>
        \A z \in 1..Len(px.entries) :
            EntryArray(px.entries[z]).dtype = EntryArray(px.entries[1]).dtype =>
                px.vol[1].values[z] = EntryArray(px.entries[z]).values

====
